---- MODULE Spec2Model ----
(***************************************************************************)
(* Verification model of the SAPL discovery / extraction pipeline.         *)
(*                                                                         *)
(*   - the Writers (PLWriter, the two JsonlWriter variants)                *)
(*   - the extraction run (run_scrape, _scrape_one, collect_pls_for_base,  *)
(*     pick_materia_endpoint, list_tipos_pl, pager, ultima_tramitacao)     *)
(*   - the discovery run (discover_by_ibge, validate_host,                 *)
(*     looks_like_sapl) and the certificate search (discover_by_crtsh,     *)
(*     query_crtsh)                                                        *)
(*   - the runners of the extraction (run_scrape, run_scraper) and the     *)
(*     interrupt of a run                                                  *)
(*                                                                         *)
(* Scheduling is asyncio's: a task runs without interruption from one      *)
(* suspension point (an await that really suspends) to the next, so every  *)
(* action below is the code between two suspension points.                 *)
(***************************************************************************)
EXTENDS Integers, Sequences, FiniteSets, TLC

VARIABLES
    conf,       \* which specification runs and which implementation variant
    seen,       \* Writer._seen
    rows,       \* PLWriter._rows
    count,      \* Writer._count
    csvLog,     \* lines of the CSV file (PLWriter), header excluded
    jsonlLog,   \* lines of the JSONL file (the append-only log)
    snapshot,   \* content of the aggregate JSON file (finalize_json)
    calls,      \* history: the rows handed to the Writer, in call order
    run,        \* position of run_scrape / of the discovery run
    sem,        \* free permits of the run's asyncio.Semaphore
    tasks,      \* the tasks of the run, each a coroutine with its locals
    sent,       \* history: the origins a request was sent to
    query,      \* discover_by_crtsh: the certificate-search query under way
    opened,     \* history: what the extraction run has opened or created
    candLog,    \* lines of the candidates file (CandidatesWriter)
    ret         \* history: what the last call of accept returned

wvars == <<seen, rows, count, csvLog, jsonlLog, snapshot, calls>>
rvars == <<run, sem, tasks, sent>>
vars == <<conf, seen, rows, count, csvLog, jsonlLog, snapshot, calls,
          run, sem, tasks, sent, query, opened, candLog, ret, ret>>

----------------------------------------------------------------------------
(* JSON values: a value keeps its JSON type, so that the integer 1 and the  *)
(* string "1" are different values with the same str().                    *)

None == [t |-> "null", v |-> ""]
JInt(s) == [t |-> "int", v |-> s]
JStr(s) == [t |-> "str", v |-> s]

\* str(x) as used by an f-string
Str(x) == IF x.t = "null" THEN "None" ELSE x.v

\* bool(x) is False: None, 0, ""
Falsy(x) == x = None \/ x = JInt("0") \/ x = JStr("")

(* URLs: origin is scheme://host, path the sequence of path segments, page  *)
(* the value of the query string's page parameter (0: no query string).    *)
Url(origin, path, page) == [origin |-> origin, path |-> path, page |-> page]

\* the empty string, as a URL
NoUrl == Url("", <<>>, 0)

----------------------------------------------------------------------------
(* Bounds *)

MaxCalls == 3

----------------------------------------------------------------------------
(* The Writers *)

WriterImpls == {"PLWriter", "JsonlWriter", "JsonlWriterUtils",
                "ProgressWriter"}

CSV_FIELDS == {"sapl_base", "sapl_url", "municipio", "uf", "tipo_id",
               "tipo_label", "materia_id", "numero", "ano", "ementa",
               "data_apresentacao", "em_tramitacao", "situacao",
               "link_publico", "ultima_tramitacao_data",
               "ultima_tramitacao_status"}

\* dict.get(k, default)
Get(row, k, default) == IF k \in DOMAIN row THEN row[k] ELSE default

\* PLWriter._key / JsonlWriter._key: f"{base}|{mid}", None when incomplete
KeyBaseMid(row) ==
    LET base == Get(row, "sapl_base", NoUrl)
        mid  == Get(row, "materia_id", None)
    IN IF base = NoUrl \/ mid = None THEN <<>> ELSE <<base, "|", Str(mid)>>

\* utils JsonlWriter._key: json.dumps(row, sort_keys=True), the whole record
KeyWholeRow(row) == <<"json", row>>

\* ProgressWriter.on_found: the row's sapl_url, nothing when it is falsy
KeyUrl(row) ==
    LET url == Get(row, "sapl_url", NoUrl)
    IN IF url = NoUrl THEN <<>> ELSE <<"url", url>>

WriterKey(impl, row) ==
    CASE impl = "JsonlWriterUtils" -> KeyWholeRow(row)
      [] impl \in {"ProgressWriter", "register_result"} -> KeyUrl(row)
      [] OTHER -> KeyBaseMid(row)

UrlFields == {"sapl_base", "sapl_url", "link_publico"}

\* what csv writes for a value: str(x), and "" for None
CsvStr(x) == IF x = None THEN "" ELSE x.v

\* the columns of ProgressWriter's CSV file
FINDER_FIELDS == {"ibge_id", "municipio", "uf", "source", "sapl_url",
                  "http_status", "marker", "title"}

\* csv_row = {k: row.get(k, "") for k in CSV_FIELDS}
CsvRow(impl, row) ==
    [k \in (IF impl = "ProgressWriter" THEN FINDER_FIELDS ELSE CSV_FIELDS) |->
        IF k \in UrlFields THEN Get(row, k, NoUrl)
        ELSE CsvStr(Get(row, k, JStr("")))]

\* the writers that keep the rows and a CSV file next to the JSONL file
KeepsRows(impl) == impl \in {"PLWriter", "ProgressWriter"}

\* the Writer's fields
Writer == [seen |-> seen, rows |-> rows, count |-> count,
           csvLog |-> csvLog, jsonlLog |-> jsonlLog]

SetWriter(w) ==
    /\ seen' = w.seen
    /\ rows' = w.rows
    /\ count' = w.count
    /\ csvLog' = w.csvLog
    /\ jsonlLog' = w.jsonlLog

\* the Writer after construction: the files are opened empty
WriterInit ==
    /\ seen = {}
    /\ rows = <<>>
    /\ count = 0
    /\ csvLog = <<>>
    /\ jsonlLog = <<>>
    /\ snapshot = <<>>
    /\ calls = <<>>

\* no certificate-search query
NoQuery == [pc |-> "none"]

\* no run yet
RunIdle ==
    /\ run = "idle"
    /\ sem = 0
    /\ tasks = <<>>
    /\ sent = {}
    /\ query = NoQuery
    /\ opened = {}
    /\ candLog = <<>>
    /\ ret = "none"

\* faulty variants of Accepted and Emit, against which the properties of
\* the Writers are tested: no look at the seen set; newest line first
AcceptedUnseen(impl, w, row) == WriterKey(impl, row) # <<>>

EmitNewestFirst(impl, w, row) ==
    IF WriterKey(impl, row) # <<>> /\ WriterKey(impl, row) \notin w.seen
    THEN [seen |-> w.seen \cup {WriterKey(impl, row)},
          count |-> w.count + 1,
          jsonlLog |-> <<row>> \o w.jsonlLog,
          rows |-> w.rows,
          csvLog |-> w.csvLog]
    ELSE w

\* a faulty variant of Emit: the key is not remembered
EmitUnmarked(impl, w, row) ==
    IF WriterKey(impl, row) # <<>> /\ WriterKey(impl, row) \notin w.seen
    THEN [seen |-> w.seen,
          count |-> w.count + 1,
          jsonlLog |-> Append(w.jsonlLog, row),
          rows |-> IF KeepsRows(impl) THEN Append(w.rows, row) ELSE w.rows,
          csvLog |-> IF KeepsRows(impl)
                     THEN Append(w.csvLog, CsvRow(impl, row)) ELSE w.csvLog]
    ELSE w

\* a faulty variant of Emit: only the newest key is remembered
EmitForgetful(impl, w, row) ==
    IF WriterKey(impl, row) # <<>> /\ WriterKey(impl, row) \notin w.seen
    THEN [seen |-> {WriterKey(impl, row)},
          count |-> w.count + 1,
          jsonlLog |-> Append(w.jsonlLog, row),
          rows |-> IF KeepsRows(impl) THEN Append(w.rows, row) ELSE w.rows,
          csvLog |-> IF KeepsRows(impl)
                     THEN Append(w.csvLog, CsvRow(impl, row)) ELSE w.csvLog]
    ELSE w

\* a faulty variant of Emit: a duplicate is counted again
EmitCountsDuplicates(impl, w, row) ==
    IF WriterKey(impl, row) = <<>> THEN w
    ELSE IF WriterKey(impl, row) \in w.seen
    THEN [w EXCEPT !.count = @ + 1]
    ELSE [seen |-> w.seen \cup {WriterKey(impl, row)},
          count |-> w.count + 1,
          jsonlLog |-> Append(w.jsonlLog, row),
          rows |-> IF KeepsRows(impl) THEN Append(w.rows, row) ELSE w.rows,
          csvLog |-> IF KeepsRows(impl)
                     THEN Append(w.csvLog, CsvRow(impl, row)) ELSE w.csvLog]

\* The result of emit / write: TRUE when the record is persisted
Accepted(impl, w, row) ==
    /\ WriterKey(impl, row) # <<>>
    /\ WriterKey(impl, row) \notin w.seen

\* What the call returns to its caller: JsonlWriter.write returns whether
\* it wrote the record; PLWriter.emit and ProgressWriter.on_found have
\* only bare return statements and return None
Returned(impl, w, row) ==
    IF impl \in {"PLWriter", "ProgressWriter"} THEN "None"
    ELSE IF Accepted(impl, w, row) THEN "True" ELSE "False"

\* PLWriter.emit / JsonlWriter.write / ProgressWriter.on_found, the whole
\* call (no suspension inside: the lock is never held across an await)
Emit(impl, w, row) ==
    IF Accepted(impl, w, row)
    THEN [seen |-> w.seen \cup {WriterKey(impl, row)},
          count |-> w.count + 1,
          jsonlLog |-> Append(w.jsonlLog, row),
          rows |-> IF KeepsRows(impl) THEN Append(w.rows, row) ELSE w.rows,
          csvLog |-> IF KeepsRows(impl)
                     THEN Append(w.csvLog, CsvRow(impl, row)) ELSE w.csvLog]
    ELSE w

RECURSIVE EmitAll(_, _, _)
\* the emit calls of one task between two suspensions, in order
EmitAll(impl, w, rs) ==
    IF rs = <<>> THEN w ELSE EmitAll(impl, Emit(impl, w, Head(rs)), Tail(rs))

\* the strings of the model that occur in a sort key, in the order of
\* Python's str
StrOrder ==
    <<"", "1", "2", "A", "B", "C", "MG", "RJ", "SP", "e", "e1", "e2",
      "https://a.leg.br", "https://a.sp.leg.br", "https://b.leg.br",
      "https://b.mg.leg.br", "https://sapl.a.sp.leg.br",
      "https://sapl.b.mg.leg.br", "https://sapl.ext.leg.br",
      "https://sapl.x.leg.br", "https://x.example",
      "acompanhar-materia", "api", "materia", "pesquisar-materia", "sapl">>

StrRank(s) == CHOOSE i \in DOMAIN StrOrder : StrOrder[i] = s

RECURSIVE SeqLess(_, _)
\* a < b for tuples: the first component that differs decides
SeqLess(a, b) ==
    IF b = <<>> THEN FALSE
    ELSE IF a = <<>> THEN TRUE
    ELSE IF Head(a) = Head(b) THEN SeqLess(Tail(a), Tail(b))
    ELSE Head(a) < Head(b)

\* a URL string as a sort key: the origin, then the segments of the path
UrlKey(u) == <<StrRank(u.origin)>> \o [i \in DOMAIN u.path |-> StrRank(u.path[i])]

\* ProgressWriter.finalize_json's key (output.py line 124):
\* (x.get("uf", ""), x.get("municipio", ""), x.get("sapl_url", ""))
FinderKey(x) ==
    <<StrRank(Get(x, "uf", JStr("")).v),
      StrRank(Get(x, "municipio", JStr("")).v)>>
    \o UrlKey(Get(x, "sapl_url", NoUrl))

RECURSIVE Insert(_, _)
\* x put into the sorted s behind the entries that are not greater
Insert(s, x) ==
    IF s = <<>> THEN <<x>>
    ELSE IF SeqLess(FinderKey(x), FinderKey(Head(s))) THEN <<x>> \o s
    ELSE <<Head(s)>> \o Insert(Tail(s), x)

RECURSIVE sorted(_)
\* sorted(rows, key=...): stable
sorted(rs) ==
    IF rs = <<>> THEN <<>>
    ELSE Insert(sorted(SubSeq(rs, 1, Len(rs) - 1)), rs[Len(rs)])

\* a faulty variant of FinalizeJson, against which its independence of
\* the log is tested: the log is emptied once the aggregate is written
FinalizeJsonDrains ==
    /\ snapshot' = rows
    /\ jsonlLog' = <<>>
    /\ UNCHANGED <<seen, rows, count, csvLog>>

\* PLWriter.finalize_json: json.dump(self._rows);
\* ProgressWriter.finalize_json: json.dump(sorted(self._rows, key=...))
FinalizeJson ==
    /\ snapshot' = IF conf.writer = "ProgressWriter" THEN sorted(rows)
                   ELSE rows
    /\ UNCHANGED <<seen, rows, count, csvLog, jsonlLog>>

RECURSIVE DedupeLines(_, _, _)
\* utils JsonlWriter.dedupe_file: keep the first line of every key
DedupeLines(lines, i, acc) ==
    IF i > Len(lines) THEN acc
    ELSE IF \E j \in 1..Len(acc) : KeyWholeRow(acc[j]) = KeyWholeRow(lines[i])
         THEN DedupeLines(lines, i + 1, acc)
         ELSE DedupeLines(lines, i + 1, Append(acc, lines[i]))

DedupeFile ==
    /\ jsonlLog' = DedupeLines(jsonlLog, 1, <<>>)
    /\ UNCHANGED <<seen, rows, count, csvLog, snapshot>>

----------------------------------------------------------------------------
(* The remote hosts, as the extraction sees them.  A response is drawn anew *)
(* for every request: a host may answer the same request differently each  *)
(* time.  Only the items of a page are a fixed function of the page asked. *)

OriginA == "https://a.leg.br"
OriginB == "https://b.leg.br"
OriginC == "https://c.leg.br"
OriginX == "https://x.example"      \* a host that is in no input line

\* a link as a host writes it: none, relative ("?page=n") or absolute
Link(k, origin, page) == [k |-> k, origin |-> origin, page |-> page]
NoLink == Link("none", "", 0)
Rel(n) == Link("rel", "", n)
Abs(origin, n) == Link("abs", origin, n)

\* urllib.parse.urljoin(page_url, link)
urljoin(page_url, link) ==
    IF link.k = "abs" THEN Url(link.origin, page_url.path, link.page)
    ELSE Url(page_url.origin, page_url.path, link.page)

(* A JSON body.  kind: "notjson" (r.json() raises), "null", "other" (an     *)
(* object without "results", a number, ...), "list" (a bare array), "env"   *)
(* (an object with "results").  results: "list", "null" or "nonlist" (a    *)
(* number).  pag: "absent", "obj", or "nonobj" (a string, an array).        *)
Body(kind, results, pag, np, ln, nx) ==
    [kind |-> kind, results |-> results, pag |-> pag,
     next_page |-> np, links_next |-> ln, next |-> nx]
NoBody == Body("none", "list", "absent", 0, NoLink, NoLink)
Env(results, pag, np, ln, nx) == Body("env", results, pag, np, ln, nx)

Resp(st, body) == [st |-> st, body |-> body]
Fail == Resp("fail", NoBody)            \* timeout, connection or TLS error
Non200 == Resp("non200", NoBody)
Ok(body) == Resp("ok", body)
Plain(kind) == Ok(Body(kind, "list", "absent", 0, NoLink, NoLink))

\* r.json() returns a value (no exception, status 200)
HasJson(resp) == resp.st = "ok" /\ resp.body.kind # "notjson"

IdStr == <<"1", "2", "3", "4", "5", "6", "7", "8", "9", "10">>

\* the bills of page n of a listing: two per page
ItemsOfPage(n) ==
    << [id |-> JInt(IdStr[2 * n - 1]), ementa |-> JStr("e")],
       [id |-> JInt(IdStr[2 * n]), ementa |-> JStr("e")] >>

\* the bills a host serves on page n: the second bill of the first page of
\* the host at OriginB carries no "id"
ItemsOf(origin, n) ==
    IF origin = OriginB /\ n = 1
    THEN << [id |-> JInt(IdStr[1]), ementa |-> JStr("e")],
            [ementa |-> JStr("e")] >>
    ELSE ItemsOfPage(n)

\* the page a request asks for
PageOf(url, params) ==
    IF "page" \in DOMAIN params THEN params["page"]
    ELSE IF url.page > 0 THEN url.page ELSE 1

(* The type taxonomy: the label fields of a type, as words *)
TypeNames == {"PL", "REQ", "PLC", "PLO"}
TypeId(name) ==
    CASE name = "PL" -> JInt("1")
      [] name = "REQ" -> JInt("2")
      [] name = "PLC" -> None
      [] name = "PLO" -> JInt("3")
TypeWords(name) ==
    CASE name = "PL" -> <<"PL", "Projeto", "de", "Lei">>
      [] name = "REQ" -> <<"REQ", "Requerimento">>
      [] name = "PLC" -> <<"PLC", "PROJETO", "DE", "LEI", "Complementar">>
      [] name = "PLO" -> <<"PLO", "Projeto", "de", "Lei", "Ordinaria">>
TypesOfPage(n) == IF n = 1 THEN <<"PL", "REQ">> ELSE <<"PLC">>

\* the types a host serves on page n: the host at OriginC has a second
\* type of bills, with an id
TypesOf(origin, n) ==
    IF origin = OriginC /\ n > 1 THEN <<"PLO">> ELSE TypesOfPage(n)

\* norm, word by word: NFKD, ascii, lower; [^a-z0-9 ]+ becomes a space
NormWord(w) ==
    CASE w \in {"Projeto", "PROJETO"} -> "projeto"
      [] w \in {"de", "DE"} -> "de"
      [] w \in {"Lei", "LEI"} -> "lei"
      [] w = "PL" -> "pl"
      [] w = "REQ" -> "req"
      [] w = "PLC" -> "plc"
      [] w = "Requerimento" -> "requerimento"
      [] w = "Complementar" -> "complementar"
      [] w = "PLO" -> "plo"
      [] w = "Ordinaria" -> "ordinaria"
norm(words) == [i \in 1..Len(words) |-> NormWord(words[i])]

\* "projeto de lei" in lab
HasProjetoDeLei(lab) ==
    \E i \in 1..(Len(lab) - 2) :
        SubSeq(lab, i, i + 2) = <<"projeto", "de", "lei">>

----------------------------------------------------------------------------
(* The extraction: _scrape_one and collect_pls_for_base as one coroutine.   *)
(* A task is a record of the coroutine's position (pc) and locals; "out"   *)
(* collects the rows it hands to the Writer before it suspends again;      *)
(* tick is the parity of the responses it has received while it went on    *)
(* to a further request (kept in the runs checked for termination).        *)

PAGE_SIZE == 100
TIPOS_PAGE_SIZE == 500

EmptyDict == [x \in {} |-> None]

NewTask(line) ==
    [pc |-> "created", line |-> line, base |-> NoUrl, endpoint |-> NoUrl,
     ep |-> 0, tipos |-> <<>>, kept |-> <<>>, page_url |-> NoUrl,
     page_params |-> EmptyDict, last_sig |-> <<>>, pending |-> <<>>,
     cont |-> NoBody, out |-> <<>>,
     npages |-> 0, nsig |-> 0, sig0 |-> <<>>, same |-> TRUE, scen |-> 0,
     tick |-> 0, reqs |-> {}, epnone |-> FALSE, yielded |-> FALSE,
     cut |-> FALSE, stops |-> <<>>, nkept |-> 0, lastp |-> "",
     epn |-> 0, epskip |-> FALSE, lastc |-> NoBody]

\* the locals are dead once the coroutine has ended (the history stays)
Ended(t, pc) ==
    [NewTask(t.line) EXCEPT !.pc = pc, !.out = t.out, !.npages = t.npages,
                            !.nsig = t.nsig, !.sig0 = t.sig0,
                            !.same = t.same, !.scen = t.scen,
                            !.reqs = t.reqs, !.epnone = t.epnone,
                            !.yielded = t.yielded, !.cut = t.cut,
                            !.stops = t.stops, !.nkept = t.nkept,
                            !.lastp = t.lastp, !.epn = t.epn,
                            !.epskip = t.epskip]
Finish(t) == Ended(t, "done")
Raise(t) == Ended(t, "raised")

\* a request is in flight: the coroutine is suspended in client.get
InFlight(t) == t.pc \in {"endpoint", "tipos", "page", "tram"}

RECURSIVE FindMateria(_, _)
\* path.find("/materia/"): the first segment "materia" followed by a slash
FindMateria(path, i) ==
    IF i >= Len(path) THEN 0
    ELSE IF path[i] = "materia" THEN i ELSE FindMateria(path, i + 1)

base_from_sapl_url(url) ==
    LET idx == FindMateria(url.path, 1)
    IN Url(url.origin,
           IF idx > 0 THEN SubSeq(url.path, 1, idx - 1) ELSE url.path, 0)

\* the candidates of pick_materia_endpoint, in order
EndpointPaths == << <<"api", "materia">>,
                    <<"api", "materia", "materialegislativa">> >>

EndpointUrl(base, i) == Url(base.origin, base.path \o EndpointPaths[i], 0)

TiposUrl(base) ==
    Url(base.origin, base.path \o <<"api", "materia", "tipomaterialegislativa">>, 0)

build_link_publico(base, mid) ==
    Url(base.origin, base.path \o <<"materia", Str(mid), "acompanhar-materia">>, 0)

\* a or b
Or(a, b) == IF Falsy(a) THEN b ELSE a

\* extract_tramitacao_fields: the first key with a non-empty string wins
FirstStr(tram, keys) ==
    IF \E i \in 1..Len(keys) : Get(tram, keys[i], None).t = "str"
                               /\ Get(tram, keys[i], None).v # ""
    THEN LET i == CHOOSE i \in 1..Len(keys) :
                    /\ Get(tram, keys[i], None).t = "str"
                    /\ Get(tram, keys[i], None).v # ""
                    /\ \A j \in 1..(i - 1) :
                          ~(Get(tram, keys[j], None).t = "str"
                            /\ Get(tram, keys[j], None).v # "")
         IN tram[keys[i]].v
    ELSE ""

extract_tramitacao_fields(tram) ==
    <<FirstStr(tram, <<"data_tramitacao", "data", "data_registro">>),
      FirstStr(tram, <<"status", "texto", "descricao">>)>>

\* the row of collect_pls_for_base before enrichment (lines 272-288)
BaseRow(t, m, input) ==
    LET mid == Get(m, "id", None)
        tp  == Head(t.kept)
    IN [sapl_base |-> t.base, sapl_url |-> t.base,
        municipio |-> input[t.line].municipio, uf |-> input[t.line].uf,
        tipo_id |-> tp.id, tipo_label |-> tp.rotulo,
        materia_id |-> mid,
        numero |-> Get(m, "numero", None), ano |-> Get(m, "ano", None),
        ementa |-> Or(Get(m, "ementa", None), Get(m, "observacao", None)),
        data_apresentacao |-> Or(Get(m, "data_apresentacao", None),
                                 Get(m, "data_recebimento", None)),
        em_tramitacao |-> Get(m, "em_tramitacao", None),
        situacao |-> Or(Get(m, "status", None), Get(m, "situacao", None)),
        link_publico |-> IF mid # None THEN build_link_publico(t.base, mid)
                         ELSE NoUrl]

\* the row of collect_pls_for_base of experiments/.../utils/scraper.py
\* (lines 328-336); ibge_id is the parameter's default, None
UtilsRow(t, m, input) ==
    LET mid == Get(m, "id", None)
    IN [municipio |-> input[t.line].municipio, uf |-> input[t.line].uf,
        ibge_id |-> None,
        ementa |-> Or(Get(m, "ementa", None), Get(m, "observacao", None)),
        data_apresentacao |-> Or(Get(m, "data_apresentacao", None),
                                 Get(m, "data_recebimento", None)),
        link_publico |-> IF mid # None THEN build_link_publico(t.base, mid)
                         ELSE NoUrl]

\* the row the engine builds for the item m
Row(impl, t, m, input) ==
    IF impl = "utils" THEN UtilsRow(t, m, input) ELSE BaseRow(t, m, input)

\* lines 290-297: the enrichment fields
Enriched(row, tram) ==
    LET f == extract_tramitacao_fields(tram)
        d == IF f[1] # "" THEN ("ultima_tramitacao_data" :> JStr(f[1]))
             ELSE EmptyDict
        st == IF f[2] # "" THEN ("ultima_tramitacao_status" :> JStr(f[2]))
              ELSE EmptyDict
    IN row @@ ("ultima_tramitacao" :> tram) @@ d @@ st

(* History of the task, kept for the properties: reqs, the kinds of the    *)
(* requests it has sent, epnone, no candidate endpoint answered, yielded,  *)
(* the engine has yielded a row, cut, the task was cancelled while a       *)
(* request of it was in flight, stops, why each run of pager has ended, in *)
(* order ("fail", "non200", "unparseable", "other", "loop", "end"), nkept, *)
(* the number of kept types that have an id, lastp, what the response to  *)
(* a page request was on which the task raised, epn, the number of         *)
(* endpoint probes it has sent, epskip, a candidate endpoint that answered *)
(* 200 with a JSON body was passed over.                                   *)
(* History of the current run of pager, kept for the properties: lastc,   *)
(* the body of the last response whose items pager has taken; npages,      *)
(* the pages whose items pager has yielded, and nsig, the signatures it    *)
(* has computed (both stop counting at PageCap); sig0 and same, the first  *)
(* signature computed and whether every later one was equal to it.         *)
PageCap == 4

Counted(t) ==
    [t EXCEPT !.npages = IF @ < PageCap THEN @ + 1 ELSE @]

Computed(t, sig) ==
    [t EXCEPT !.nsig = IF @ < PageCap THEN @ + 1 ELSE @,
              !.sig0 = IF @ = <<>> THEN sig ELSE @,
              !.same = @ /\ (t.sig0 = <<>> \/ sig = t.sig0)]

\* pager's base_params (line 270)
BaseParams(t) == [tipo |-> Head(t.kept).id, page_size |-> PAGE_SIZE]

\* pager is entered and sends its first request (lines 132-140)
StartPager(t) ==
    [t EXCEPT !.pc = "page", !.page_url = t.endpoint,
              !.page_params = BaseParams(t), !.last_sig = <<>>,
              !.pending = <<>>, !.cont = NoBody, !.npages = 0, !.nsig = 0,
              !.sig0 = <<>>, !.same = TRUE, !.scen = 0, !.lastc = NoBody]

RECURSIVE NextType(_)
\* the loop over the kept types (lines 260-271); Head(kept) is the current one
NextType(t) ==
    IF t.kept = <<>> THEN Finish(t)
    ELSE IF Falsy(Head(t.kept).id) THEN NextType([t EXCEPT !.kept = Tail(@)])
    ELSE StartPager(t)

\* pager returns: the next type
PagerReturn(t, why) ==
    NextType([t EXCEPT !.kept = Tail(@), !.stops = Append(@, why)])

\* why pager returns on a response without a JSON value (lines 139-145)
WhyNoJson(resp) ==
    CASE resp.st = "fail" -> "fail"
      [] resp.st = "non200" -> "non200"
      [] OTHER -> "unparseable"

\* links.get("next") on a pagination that is no object raises; pager of
\* sapl_scrapper/scraper.py catches it (lines 170-175), the one of
\* experiments/.../utils/scraper.py does not (line 232)
LinksRaise(impl, body) == impl \in {"exp", "utils"} /\ body.pag = "nonobj"

\* a faulty variant of PagerNext, against which the loop guard is tested:
\* the signature is computed but never compared
PagerNextUnguarded(impl, t) ==
    LET b == t.cont
        npv == IF b.pag = "obj" THEN b.next_page ELSE 0
        nx == IF b.pag = "obj" /\ b.links_next.k # "none"
              THEN urljoin(t.page_url, b.links_next)
              ELSE IF b.next.k # "none" THEN urljoin(t.page_url, b.next)
              ELSE NoUrl
        url == IF npv > 0 THEN t.endpoint ELSE nx
        params == IF npv > 0 THEN BaseParams(t) @@ ("page" :> npv)
                  ELSE EmptyDict
        sig == <<url, params>>
    IN IF npv = 0 /\ LinksRaise(impl, b)
       THEN Raise([t EXCEPT !.lastp = "badpag"])
       ELSE IF npv = 0 /\ nx = NoUrl THEN PagerReturn(t, "end")
       ELSE [Computed(t, sig) EXCEPT !.pc = "page", !.page_url = url,
                                     !.page_params = params,
                                     !.last_sig = sig, !.cont = NoBody]

\* a faulty variant of PagerNext: a next link is followed in preference to
\* the numeric next_page
PagerNextLinksFirst(impl, t) ==
    LET b == t.cont
        ln == IF b.pag = "obj" /\ b.links_next.k # "none"
              THEN urljoin(t.page_url, b.links_next) ELSE NoUrl
        nx == IF ln # NoUrl THEN ln
              ELSE IF b.next.k # "none" THEN urljoin(t.page_url, b.next)
              ELSE NoUrl
        npv == IF nx = NoUrl /\ b.pag = "obj" THEN b.next_page ELSE 0
        url == IF npv > 0 THEN t.endpoint ELSE nx
        params == IF npv > 0 THEN BaseParams(t) @@ ("page" :> npv)
                  ELSE EmptyDict
        sig == <<url, params>>
    IN IF npv = 0 /\ LinksRaise(impl, b)
       THEN Raise([t EXCEPT !.lastp = "badpag"])
       ELSE IF npv = 0 /\ nx = NoUrl THEN PagerReturn(t, "end")
       ELSE IF sig = t.last_sig
            THEN PagerReturn(Computed(t, sig), "loop")
       ELSE [Computed(t, sig) EXCEPT !.pc = "page", !.page_url = url,
                                     !.page_params = params,
                                     !.last_sig = sig, !.cont = NoBody]

\* the next request of pager after the items of an envelope (lines 153-195)
PagerNext(impl, t) ==
    LET b == t.cont
        npv == IF b.pag = "obj" THEN b.next_page ELSE 0
        ln == IF b.pag = "obj" /\ b.links_next.k # "none"
              THEN urljoin(t.page_url, b.links_next) ELSE NoUrl
        nx == IF ln # NoUrl THEN ln
              ELSE IF b.next.k # "none" THEN urljoin(t.page_url, b.next)
              ELSE NoUrl
        url == IF npv > 0 THEN t.endpoint ELSE nx
        params == IF npv > 0 THEN BaseParams(t) @@ ("page" :> npv)
                  ELSE EmptyDict
        sig == <<url, params>>
    IN IF npv = 0 /\ LinksRaise(impl, b)
       THEN Raise([t EXCEPT !.lastp = "badpag"])
       ELSE IF npv = 0 /\ nx = NoUrl THEN PagerReturn(t, "end")
       ELSE IF sig = t.last_sig
            THEN PagerReturn(Computed(t, sig), "loop")
       ELSE [Computed(t, sig) EXCEPT !.pc = "page", !.page_url = url,
                                     !.page_params = params,
                                     !.last_sig = sig, !.cont = NoBody]

\* the items of a page are exhausted: a bare array ends pager (line 200)
AfterItems(impl, t) ==
    IF t.cont.kind = "list" THEN PagerReturn(t, "end")
    ELSE PagerNext(impl, t)

RECURSIVE ProcessItems(_, _, _, _)
\* pager yields the items of a page one by one; collect_pls_for_base builds
\* the row and yields it to _scrape_one, which hands it to the Writer; with
\* enrichment it first awaits ultima_tramitacao (line 291)
ProcessItems(impl, tram, input, t) ==
    IF t.pending = <<>> THEN AfterItems(impl, t)
    ELSE LET m == Head(t.pending)
         IN IF tram /\ impl # "utils" /\ Get(m, "id", None) # None
            THEN [t EXCEPT !.pc = "tram"]
            ELSE ProcessItems(impl, tram, input,
                    [t EXCEPT !.pending = Tail(@),
                              !.out = Append(@, Row(impl, t, m, input))])

\* a faulty variant of OnTram, against which the completeness of the
\* records is tested: the row is yielded as it was before the enrichment
OnTramBare(impl, input, t, resp) ==
    ProcessItems(impl, TRUE, input,
        [t EXCEPT !.pending = Tail(@),
                  !.out = Append(@, BaseRow(t, Head(t.pending), input))])

\* the response of ultima_tramitacao arrives (lines 205-214, 291-299)
OnTram(impl, input, t, resp) ==
    LET tr == IF resp.st = "ok" /\ resp.body.kind = "dict"
              THEN resp.body.dict ELSE EmptyDict
        m == Head(t.pending)
    IN ProcessItems(impl, TRUE, input,
           [t EXCEPT !.pending = Tail(@),
                     !.out = Append(@, Enriched(BaseRow(t, m, input), tr))])

(* Scenario B of the specification, followed on the run of pager: scen is  *)
(* the number of pages served so far as the scenario says (page 1 links to *)
(* page 2, page 2 to page 3, page 3 back to page 2's URL), ScenOff once    *)
(* the host has left the scenario.                                         *)
ScenarioB == <<Env("list", "absent", 0, NoLink, Rel(2)),
               Env("list", "absent", 0, NoLink, Rel(3)),
               Env("list", "absent", 0, NoLink, Rel(2))>>

ScenOff == Len(ScenarioB) + 1

Scenario(t, b) ==
    [t EXCEPT !.scen = IF @ < Len(ScenarioB) /\ b = ScenarioB[@ + 1]
                       THEN @ + 1 ELSE ScenOff]

\* what a response to a page request is
PageClass(resp) ==
    IF ~HasJson(resp) THEN WhyNoJson(resp)
    ELSE IF resp.body.kind # "env" THEN resp.body.kind
    ELSE IF resp.body.results = "nonlist" THEN "badresults"
    ELSE IF resp.body.pag = "nonobj" THEN "badpag"
    ELSE "env"

\* a faulty variant of OnPage: client.get is not in a try, a request that
\* fails raises out of pager
OnPageNoCatch(impl, tram, input, t0, resp) ==
    LET b == resp.body
        t == t0
        items == ItemsOf(t.base.origin, PageOf(t.page_url, t.page_params))
    IN IF resp.st = "fail"
       THEN Raise([t EXCEPT !.lastp = PageClass(resp)])
       ELSE IF ~HasJson(resp) THEN PagerReturn(t, WhyNoJson(resp))
       ELSE IF b.kind = "env"
            THEN IF b.results = "nonlist"
                 THEN Raise([t EXCEPT !.lastp = PageClass(resp)])
                 ELSE ProcessItems(impl, tram, input,
                        [Counted(Scenario(t, b)) EXCEPT
                            !.cont = b, !.lastc = b,
                            !.pending = IF b.results = "list"
                                        THEN items ELSE <<>>])
       ELSE IF b.kind = "list"
            THEN ProcessItems(impl, tram, input,
                    [Counted(Scenario(t, b)) EXCEPT !.cont = b, !.lastc = b,
                                                    !.pending = items])
       ELSE PagerReturn(t, "other")

\* the response of a page request arrives (lines 139-152, 196-202)
OnPage(impl, tram, input, t0, resp) ==
    LET b == resp.body
        t == t0
        items == ItemsOf(t.base.origin, PageOf(t.page_url, t.page_params))
    IN IF ~HasJson(resp) THEN PagerReturn(t, WhyNoJson(resp))
       ELSE IF b.kind = "env"
            THEN IF b.results = "nonlist"
                 THEN Raise([t EXCEPT !.lastp = PageClass(resp)])
                 ELSE ProcessItems(impl, tram, input,
                        [Counted(Scenario(t, b)) EXCEPT
                            !.cont = b, !.lastc = b,
                            !.pending = IF b.results = "list"
                                        THEN items ELSE <<>>])
       ELSE IF b.kind = "list"
            THEN ProcessItems(impl, tram, input,
                    [Counted(Scenario(t, b)) EXCEPT !.cont = b, !.lastc = b,
                                                    !.pending = items])
       ELSE PagerReturn(t, "other")

\* the accumulated types stop growing at this length
TiposCap == 3

Extend(seq, more) ==
    IF Len(seq \o more) <= TiposCap THEN seq \o more
    ELSE SubSeq(seq \o more, 1, TiposCap)

\* list_tipos_pl, lines 120-126: the types whose label has "projeto de lei"
KeptTypes(tipos) ==
    LET pl == SelectSeq(tipos, LAMBDA n : HasProjetoDeLei(norm(TypeWords(n))))
    IN [i \in 1..Len(pl) |-> [id |-> TypeId(pl[i]), rotulo |-> JStr(pl[i])]]

\* list_tipos_pl returns and the loop over the types starts
AfterTipos(t) ==
    NextType([t EXCEPT !.kept = KeptTypes(t.tipos), !.tipos = <<>>,
                       !.page_url = NoUrl, !.page_params = EmptyDict,
                       !.nkept = Len(SelectSeq(KeptTypes(t.tipos),
                                               LAMBDA k : ~Falsy(k.id)))])

\* the next request of list_tipos_pl (lines 84-113): links.next, then next,
\* then the numeric next_page; no signature is kept
TiposNext(impl, t, b) ==
    LET ln == IF b.pag = "obj" /\ b.links_next.k # "none"
              THEN urljoin(t.page_url, b.links_next) ELSE NoUrl
        nx == IF ln # NoUrl THEN ln
              ELSE IF b.next.k # "none" THEN urljoin(t.page_url, b.next)
              ELSE NoUrl
        np == IF nx = NoUrl /\ b.pag = "obj" THEN b.next_page ELSE 0
        url == IF nx # NoUrl THEN nx
               ELSE IF np > 0 THEN TiposUrl(t.base) ELSE NoUrl
        p1 == IF np > 0
              THEN [page_size |-> Get(t.page_params, "page_size", TIPOS_PAGE_SIZE),
                    page |-> np]
              ELSE t.page_params
        params == IF url.page > 0 THEN EmptyDict ELSE p1
    IN IF LinksRaise(impl, b) THEN Raise(t)
       ELSE IF url = NoUrl THEN AfterTipos(t)
       ELSE [t EXCEPT !.page_url = url, !.page_params = params]

\* the response of a type-taxonomy request arrives (lines 72-118)
OnTipos(impl, t, resp) ==
    LET b == resp.body
        types == TypesOf(t.base.origin, PageOf(t.page_url, t.page_params))
    IN IF ~HasJson(resp) THEN AfterTipos(t)
       ELSE IF b.kind = "env"
            THEN IF b.results # "list" THEN Raise(t)
                 ELSE TiposNext(impl, [t EXCEPT !.tipos = Extend(@, types)], b)
       ELSE IF b.kind = "list"
            THEN AfterTipos([t EXCEPT !.tipos = Extend(@, types)])
       ELSE AfterTipos(t)

\* try_json returns a value that is not None (lines 42-51, 58)
TryJsonNotNone(resp) == HasJson(resp) /\ resp.body.kind # "null"

\* a faulty variant of OnEndpoint: the type listing is asked for even when
\* no endpoint answered
OnEndpointGoesOn(t, resp) ==
    IF TryJsonNotNone(resp) \/ t.ep = Len(EndpointPaths)
    THEN [t EXCEPT !.pc = "tipos", !.endpoint = EndpointUrl(t.base, t.ep),
                   !.ep = 0, !.page_url = TiposUrl(t.base),
                   !.page_params = [page_size |-> TIPOS_PAGE_SIZE],
                   !.epnone = ~TryJsonNotNone(resp)]
    ELSE [t EXCEPT !.ep = t.ep + 1, !.epn = @ + 1,
                   !.epskip = @ \/ HasJson(resp)]

\* the response of an endpoint probe arrives (lines 54-60, 248-253)
OnEndpoint(t, resp) ==
    IF TryJsonNotNone(resp)
    THEN [t EXCEPT !.pc = "tipos", !.endpoint = EndpointUrl(t.base, t.ep),
                   !.ep = 0, !.page_url = TiposUrl(t.base),
                   !.page_params = [page_size |-> TIPOS_PAGE_SIZE]]
    ELSE IF t.ep < Len(EndpointPaths)
         THEN [t EXCEPT !.ep = t.ep + 1, !.epn = @ + 1,
                        !.epskip = @ \/ HasJson(resp)]
    ELSE Finish([t EXCEPT !.epnone = TRUE, !.epskip = @ \/ HasJson(resp)])

\* _scrape_one has the semaphore: collect_pls_for_base sends its first probe
Enter(t) == [t EXCEPT !.pc = "endpoint", !.ep = 1, !.epn = 1]

\* the coroutine resumes with the response of the request it awaits
Resume(impl, tram, input, t, resp) ==
    CASE t.pc = "endpoint" -> OnEndpoint(t, resp)
      [] t.pc = "tipos" -> OnTipos(impl, t, resp)
      [] t.pc = "page" -> OnPage(impl, tram, input, t, resp)
      [] t.pc = "tram" -> OnTram(impl, input, t, resp)

TramUrl(base, mid) ==
    Url(base.origin,
        base.path \o <<"api", "materia", "materialegislativa", Str(mid),
                       "ultima_tramitacao">>, 0)

\* the URL of the request in flight
ReqUrl(t) ==
    CASE t.pc = "endpoint" -> EndpointUrl(t.base, t.ep)
      [] t.pc = "tram" -> TramUrl(t.base, Head(t.pending).id)
      [] OTHER -> t.page_url

----------------------------------------------------------------------------
(* The responses a host may give, by the request they answer.  A "rich"     *)
(* configuration (one host) draws from every shape, the others (several    *)
(* hosts at once) from the shapes that decide how a task ends.             *)

MaxPage == 3

Final == Ok(Env("list", "absent", 0, NoLink, NoLink))
NextLink(l) == Ok(Env("list", "absent", 0, NoLink, l))
NextPage(n) == Ok(Env("list", "obj", n, NoLink, NoLink))
LinksNext(l) == Ok(Env("list", "obj", 0, l, NoLink))
BadResults == Ok(Env("nonlist", "absent", 0, NoLink, NoLink))
BadPagination(l) == Ok(Env("list", "nonobj", 0, NoLink, l))

PageResponses(rich) ==
    {Fail, Final, BadResults, NextLink(Rel(2))}
    \cup (IF rich
          THEN {Non200, Plain("notjson"), Plain("other"), Plain("list"),
                Ok(Env("null", "absent", 0, NoLink, NoLink)),
                NextLink(Abs(OriginX, 2)), LinksNext(Rel(2)),
                BadPagination(NoLink), BadPagination(Rel(2)),
                Ok(Env("list", "obj", 2, Rel(3), Rel(3))),
                Ok(Env("list", "obj", 0, Rel(2), Rel(3)))}
               \cup {NextLink(Rel(n)) : n \in 2..MaxPage}
               \cup {NextPage(n) : n \in 2..MaxPage}
          ELSE {})

TiposResponses(rich) ==
    {Fail, Plain("list"), NextLink(Rel(2)), BadResults}
    \cup (IF rich
          THEN {Final, Plain("other"), NextPage(2), LinksNext(Rel(2)),
                BadPagination(NoLink),
                Ok(Env("list", "obj", 2, Rel(3), Rel(3)))}
          ELSE {})

EndpointResponses(rich) ==
    {Fail, Plain("other")}
    \cup (IF rich THEN {Non200, Plain("notjson"), Plain("null")} ELSE {})

TramDict(d) == Resp("ok", [kind |-> "dict", dict |-> d])

TramResponses(rich) ==
    {Fail, TramDict([data_tramitacao |-> JStr("d"), status |-> JStr("s")])}
    \cup (IF rich
          THEN {Plain("other"),
                TramDict([data |-> JStr("d2"), data_registro |-> JStr("d3"),
                          status |-> JStr(""), descricao |-> JStr("s3")])}
          ELSE {})

Responses(rich, pc) ==
    CASE pc = "endpoint" -> EndpointResponses(rich)
      [] pc = "tipos" -> TiposResponses(rich)
      [] pc = "page" -> PageResponses(rich)
      [] pc = "tram" -> TramResponses(rich)

----------------------------------------------------------------------------
(* run_scrape: the input, the tasks, the semaphore *)

MaxConcurrency == 2

\* a line of the validated-host stream
HostLine(url, m, uf) ==
    [kind |-> "host", sapl_url |-> url, municipio |-> JStr(m), uf |-> JStr(uf)]
LineA == HostLine(Url(OriginA, <<"materia", "pesquisar-materia">>, 0), "A", "SP")
LineB == HostLine(Url(OriginB, <<"sapl", "materia", "pesquisar-materia">>, 0),
                  "B", "MG")
LineC == HostLine(Url(OriginC, <<"materia", "pesquisar-materia">>, 0), "C", "RJ")
LineNoUrl == HostLine(NoUrl, "C", "RJ")
LineGarbage == [kind |-> "garbage", sapl_url |-> NoUrl,
                municipio |-> JStr(""), uf |-> JStr("")]
\* a line that is JSON but no object, such as [1, 2]
LineNonDict == [kind |-> "nondict", sapl_url |-> NoUrl,
                municipio |-> JStr(""), uf |-> JStr("")]

(* impl names the code that runs: "main" is src/sapl_scrapper, "exp" the   *)
(* same run with the pager of experiments/.../utils/scraper.py, "utils"    *)
(* the engine and the Writer of experiments/.../utils (rows of             *)
(* utils/scraper.py, JsonlWriter of utils/output.py, no enrichment).       *)
(* runner names the coroutine that drives the run: run_scrape of           *)
(* src/sapl_scrapper/runner.py or run_scraper of                           *)
(* experiments/tools/sapl_scrapper/sapl_scrapper.py with its JsonlWriter.  *)
ExtractConf(impl, tram, c, rich, input) ==
    [spec |-> "extract", writer |-> "PLWriter", impl |-> impl, tram |-> tram,
     concurrency |-> c, rich |-> rich, exists |-> TRUE, input |-> input,
     fair |-> FALSE, runner |-> "run_scrape"]

\* the same run driven by run_scraper
ScraperConf(c) ==
    [c EXCEPT !.runner = "run_scraper", !.writer = "JsonlWriter"]

ExtractConfs ==
    {ExtractConf(i, FALSE, 1, TRUE, <<LineA>>) : i \in {"main", "exp"}}
    \cup {ExtractConf("main", FALSE, 1, FALSE, <<LineC>>),
          ExtractConf("main", TRUE, 1, FALSE, <<LineB>>),
          ExtractConf("main", TRUE, MaxConcurrency, FALSE, <<LineA, LineA>>)}
    \cup {ExtractConf("main", FALSE, c, FALSE, in) :
            c \in 1..MaxConcurrency,
            in \in {<<LineA, LineB>>, <<LineA, LineA>>}}
    \cup {ExtractConf("main", FALSE, 1, FALSE, in) :
            in \in {<<LineNoUrl, LineA>>, <<LineGarbage, LineB>>}}
    \cup {[ExtractConf("utils", FALSE, 1, FALSE, <<LineB>>)
              EXCEPT !.writer = "JsonlWriterUtils"]}
    \cup {[ExtractConf("main", FALSE, 1, FALSE, <<>>) EXCEPT !.exists = FALSE]}
    \cup {ExtractConf("main", FALSE, 1, FALSE, <<LineNonDict, LineB>>),
          ScraperConf(ExtractConf("exp", FALSE, 1, FALSE,
                                  <<LineNonDict, LineGarbage, LineB>>)),
          ScraperConf([ExtractConf("exp", FALSE, 1, FALSE, <<>>)
                          EXCEPT !.exists = FALSE])}

InitX ==
    /\ conf \in ExtractConfs
    /\ WriterInit
    /\ RunIdle

\* json.loads(line) succeeds (runner.py lines 65-72)
Parses(line) == line.kind # "garbage"

\* the line gets a task: run_scrape takes whatever parses, load_inputs of
\* run_scraper only objects (sapl_scrapper.py lines 88-93)
Loaded(runner, line) ==
    Parses(line) /\ (runner = "run_scraper" => line.kind = "host")

RECURSIVE CreateTasks(_, _, _)
\* one task per line that is loaded (lines 63-84)
CreateTasks(runner, input, i) ==
    IF i > Len(input) THEN <<>>
    ELSE (IF Loaded(runner, input[i]) THEN <<NewTask(i)>> ELSE <<>>)
         \o CreateTasks(runner, input, i + 1)

(* run_scrape up to asyncio.gather (lines 52-88): the input file is looked *)
(* for first.  run_scraper (sapl_scrapper.py lines 177-202) builds the     *)
(* Writer, which creates or truncates the output file, and opens the       *)
(* client before load_inputs looks for the input file.                     *)
RunScrape ==
    /\ run = "idle"
    /\ IF ~conf.exists
       THEN /\ run' = "missing"
            /\ opened' = IF conf.runner = "run_scraper"
                         THEN {"output", "client"} ELSE {}
            /\ UNCHANGED <<sem, tasks>>
       ELSE /\ run' = "gather"
            /\ opened' = {"output", "client"}
            /\ sem' = conf.concurrency
            /\ tasks' = CreateTasks(conf.runner, conf.input, 1)
    /\ UNCHANGED <<conf, candLog, ret, query, wvars, sent>>

\* the effects of one step of task i that leaves it as t; t.out, the rows
\* the engine has yielded in the step, are handed to the Writer in order
Step(i, t) ==
    /\ tasks' = [tasks EXCEPT ![i] =
                    [t EXCEPT !.reqs = IF InFlight(t) THEN @ \cup {t.pc} ELSE @,
                              !.yielded = @ \/ t.out # <<>>]]
    /\ SetWriter(EmitAll(conf.writer, Writer, t.out))
    /\ sem' = IF t.pc \in {"done", "raised"} /\ tasks[i].pc \notin {"created", "sem"}
              THEN sem + 1
              ELSE IF InFlight(t) /\ tasks[i].pc \in {"created", "sem"}
                   THEN sem - 1 ELSE sem
    /\ sent' = IF InFlight(t) THEN sent \cup {ReqUrl(t).origin} ELSE sent
    /\ UNCHANGED <<conf, opened, candLog, ret, query, run, snapshot, calls>>

\* _scrape_one starts (runner.py lines 21-31)
Start(i) ==
    /\ run = "gather"
    /\ tasks[i].pc = "created"
    /\ LET url == conf.input[tasks[i].line].sapl_url
           t == [tasks[i] EXCEPT !.base = base_from_sapl_url(url)]
       IN IF conf.input[tasks[i].line].kind = "nondict"
          THEN Step(i, Raise(tasks[i]))      \* item.get: AttributeError
          ELSE IF url = NoUrl THEN Step(i, Finish(tasks[i]))
          ELSE IF sem > 0 THEN Step(i, Enter(t))
          ELSE Step(i, [t EXCEPT !.pc = "sem"])

\* a waiting task gets the semaphore (line 31)
Acquire(i) ==
    /\ run = "gather"
    /\ tasks[i].pc = "sem"
    /\ sem > 0
    /\ Step(i, Enter(tasks[i]))

\* the response of the request in flight arrives and the task runs on
Respond(i) ==
    /\ run = "gather"
    /\ InFlight(tasks[i])
    /\ \E resp \in Responses(conf.rich, tasks[i].pc) :
          \E t \in {Resume(conf.impl, conf.tram, conf.input,
                            [tasks[i] EXCEPT !.out = <<>>], resp)} :
              Step(i, IF conf.fair /\ InFlight(t)
                      THEN [t EXCEPT !.tick = 1 - @] ELSE t)

\* asyncio.gather returns; finalize_json and close (lines 88-99);
\* run_scraper only closes
GatherDone ==
    /\ run = "gather"
    /\ \A i \in DOMAIN tasks : tasks[i].pc = "done"
    /\ run' = "closed"
    /\ IF conf.runner = "run_scraper"
       THEN UNCHANGED <<seen, rows, count, csvLog, jsonlLog, snapshot>>
       ELSE FinalizeJson
    /\ UNCHANGED <<conf, opened, candLog, ret, query, calls, sem, tasks, sent>>

\* a task raised: gather raises, run_scrape is left by the exception and
\* asyncio.run cancels the tasks that have not ended
GatherRaise ==
    /\ run = "gather"
    /\ \E i \in DOMAIN tasks : tasks[i].pc = "raised"
    /\ run' = "aborted"
    /\ tasks' = [i \in DOMAIN tasks |->
                    IF tasks[i].pc \in {"done", "raised"} THEN tasks[i]
                    ELSE Ended(tasks[i], "cancelled")]
    /\ UNCHANGED <<conf, opened, candLog, ret, query, wvars, sem, sent>>

NextX ==
    \/ RunScrape
    \/ \E i \in DOMAIN tasks : Start(i)
    \/ \E i \in DOMAIN tasks : Acquire(i)
    \/ \E i \in DOMAIN tasks : Respond(i)
    \/ GatherDone
    \/ GatherRaise

SpecX == InitX /\ [][NextX]_vars

(* SIGINT while asyncio.run runs the extraction (cli.py lines 40-53): the  *)
(* main task is cancelled in its await of gather, gather cancels the tasks *)
(* that have not ended, each of them is left by CancelledError where it    *)
(* is suspended, and KeyboardInterrupt reaches main.                       *)
Interrupt ==
    /\ run = "gather"
    /\ run' = "interrupted"
    /\ tasks' = [i \in DOMAIN tasks |->
                    IF tasks[i].pc \in {"done", "raised"} THEN tasks[i]
                    ELSE [Ended(tasks[i], "cancelled")
                             EXCEPT !.cut = InFlight(tasks[i])]]
    /\ UNCHANGED <<conf, opened, candLog, ret, query, wvars, sem, sent>>

NextI == NextX \/ Interrupt

\* the extraction run with the interrupt
SpecI == InitX /\ [][NextI]_vars

----------------------------------------------------------------------------
(* Text.  A string is a sequence of characters; an accented letter is one  *)
(* character, written here by its name ("e_acute").  An HTML body is a     *)
(* sequence of chunks: a text, a run of n newlines, or an anchor with its  *)
(* href; no tag and no marker is split over two chunks.                    *)

TEXT_LIMIT == 20000

Text(s) == [k |-> "text", s |-> s, n |-> Len(s), link |-> ""]
Filler(n) == [k |-> "fill", s |-> <<>>, n |-> n, link |-> ""]
Href(link, n) == [k |-> "href", s |-> <<>>, n |-> n, link |-> link]

RECURSIVE Truncate(_, _)
\* text[:limit]; what is left of a cut anchor is no anchor
Truncate(body, limit) ==
    IF body = <<>> \/ limit <= 0 THEN <<>>
    ELSE LET c == Head(body)
         IN IF c.n <= limit
            THEN <<c>> \o Truncate(Tail(body), limit - c.n)
            ELSE IF c.k = "text" THEN <<Text(SubSeq(c.s, 1, limit))>>
            ELSE <<Filler(limit)>>

UpperChars == <<"A", "B", "C", "D", "E", "F", "G", "H", "I", "J", "K", "L",
                "M", "N", "O", "P", "Q", "R", "S", "T", "U", "V", "W", "X",
                "Y", "Z", "E_acute", "A_acute">>
LowerChars == <<"a", "b", "c", "d", "e", "f", "g", "h", "i", "j", "k", "l",
                "m", "n", "o", "p", "q", "r", "s", "t", "u", "v", "w", "x",
                "y", "z", "e_acute", "a_acute">>

\* str.lower()
LowerChar(c) ==
    IF \E i \in DOMAIN UpperChars : UpperChars[i] = c
    THEN LowerChars[CHOOSE i \in DOMAIN UpperChars : UpperChars[i] = c]
    ELSE c
Lower(s) == [i \in 1..Len(s) |-> LowerChar(s[i])]

\* unicodedata.normalize("NFKD", c): base letter, then the combining mark
Decomposed(c) ==
    CASE c = "e_acute" -> <<"e", "comb_acute">>
      [] c = "E_acute" -> <<"E", "comb_acute">>
      [] c = "a_acute" -> <<"a", "comb_acute">>
      [] c = "A_acute" -> <<"A", "comb_acute">>
      [] OTHER -> <<c>>

RECURSIVE Nfkd(_)
Nfkd(s) == IF s = <<>> THEN <<>> ELSE Decomposed(Head(s)) \o Nfkd(Tail(s))

\* "".join(c for c in s if not unicodedata.combining(c))
StripCombining(s) == SelectSeq(s, LAMBDA c : c # "comb_acute")

\* needle in hay
Contains(hay, needle) ==
    \E i \in 0..(Len(hay) - Len(needle)) :
        SubSeq(hay, i + 1, i + Len(needle)) = needle

IsSpace(c) == c \in {" ", "\n", "\t"}

RECURSIVE LStrip(_)
LStrip(s) == IF s # <<>> /\ IsSpace(Head(s)) THEN LStrip(Tail(s)) ELSE s

RECURSIVE RStrip(_)
RStrip(s) ==
    IF s # <<>> /\ IsSpace(s[Len(s)]) THEN RStrip(SubSeq(s, 1, Len(s) - 1))
    ELSE s

\* str.strip()
Strip(s) == RStrip(LStrip(s))

M_Interlegis ==
    <<"S", "A", "P", "L", " ", "-", " ", "I", "n", "t", "e", "r", "l",
      "e", "g", "i", "s">>

M_PesquisarAcc ==
    <<"P", "e", "s", "q", "u", "i", "s", "a", "r", " ", "M", "a", "t",
      "e_acute", "r", "i", "a", " ", "L", "e", "g", "i", "s", "l",
      "a", "t", "i", "v", "a">>

M_MateriasAcc ==
    <<"M", "a", "t", "e_acute", "r", "i", "a", "s", " ", "L", "e", "g",
      "i", "s", "l", "a", "t", "i", "v", "a", "s">>

M_Sapl ==
    <<">", " ", "S", "A", "P", "L", " ", "<">>

M_Pesquisar ==
    <<"P", "e", "s", "q", "u", "i", "s", "a", "r", " ", "M", "a", "t",
      "e", "r", "i", "a", " ", "L", "e", "g", "i", "s", "l", "a",
      "t", "i", "v", "a">>

M_Materias ==
    <<"M", "a", "t", "e", "r", "i", "a", "s", " ", "L", "e", "g", "i",
      "s", "l", "a", "t", "i", "v", "a", "s">>

\* SAPL_MARKERS of config.py, and the list sapl_finder.py defines for itself
SAPL_MARKERS(impl) ==
    IF impl = "exp" THEN <<M_Interlegis, M_Pesquisar, M_Materias, M_Sapl>>
    ELSE <<M_Interlegis, M_PesquisarAcc, M_MateriasAcc, M_Sapl>>

R_TitleOpen ==
    <<"<", "t", "i", "t", "l", "e", ">">>

R_TitleClose ==
    <<"<", "/", "t", "i", "t", "l", "e", ">">>

R_Sapl ==
    <<"s", "a", "p", "l">>

\* the text the marker search runs on: html.lower(), which sapl_finder.py
\* also decomposes and strips of its combining marks
Searched(impl, s) ==
    IF impl = "exp" THEN StripCombining(Nfkd(Lower(s))) ELSE Lower(s)

\* the texts of a body
Texts(html) == SelectSeq(html, LAMBDA c : c.k = "text")

\* m.lower() in low
MarkerIn(impl, html, m) ==
    \E k \in DOMAIN Texts(html) :
        Contains(Searched(impl, Texts(html)[k].s), Lower(m))

(* re.search(r"<title>([^<]+)</title>", s, flags=re.I) with the opening    *)
(* tag at i: the group runs to the next "<", is not empty, and the closing *)
(* tag stands there.  0 when there is no match at i, else the place of the *)
(* closing tag.                                                            *)
TitleEnd(s, i) ==
    LET from == i + Len(R_TitleOpen)
        stops == {j \in from..Len(s) : s[j] = "<"}
    IN IF i + Len(R_TitleOpen) - 1 > Len(s)
          \/ Lower(SubSeq(s, i, from - 1)) # R_TitleOpen
          \/ stops = {}
       THEN 0
       ELSE LET j == CHOOSE j \in stops : \A x \in stops : j <= x
            IN IF j > from /\ j + Len(R_TitleClose) - 1 <= Len(s)
                  /\ Lower(SubSeq(s, j, j + Len(R_TitleClose) - 1))
                       = R_TitleClose
               THEN j ELSE 0

\* the group of the leftmost match in s, <<>> when there is none
TitleOf(s) ==
    LET starts == {i \in DOMAIN s : TitleEnd(s, i) > 0}
    IN IF starts = {} THEN <<>>
       ELSE LET i == CHOOSE i \in starts : \A x \in starts : i <= x
            IN SubSeq(s, i + Len(R_TitleOpen), TitleEnd(s, i) - 1)

\* the group of the leftmost match in the body
TitleGroup(html) ==
    LET ts == SelectSeq(Texts(html), LAMBDA c : TitleOf(c.s) # <<>>)
    IN IF ts = <<>> THEN <<>> ELSE TitleOf(Head(ts).s)

TitleHit == <<"title contains SAPL">>
NoHit == [ok |-> FALSE, marker |-> <<>>]

\* looks_like_sapl: the first marker of the list found in the body, else
\* the title
looks_like_sapl(impl, html) ==
    LET ms == SAPL_MARKERS(impl)
        hits == {k \in DOMAIN ms : MarkerIn(impl, html, ms[k])}
    IN IF hits # {}
       THEN [ok |-> TRUE,
             marker |-> ms[CHOOSE k \in hits : \A x \in hits : k <= x]]
       ELSE IF Contains(Lower(TitleGroup(html)), R_Sapl)
            THEN [ok |-> TRUE, marker |-> TitleHit]
       ELSE NoHit

\* try_get: (status, text[:20000]), (0, "") when the request raises
try_get(resp) ==
    IF resp.st = 0 THEN [st |-> 0, html |-> <<>>]
    ELSE [st |-> resp.st, html |-> Truncate(resp.body, TEXT_LIMIT)]

----------------------------------------------------------------------------
(* The discovery: discover_by_ibge and its workers, validate_host.  "tools" *)
(* is tools/sapl_finder/scraper.py, "exp" experiments/.../sapl_finder.py.   *)

CHECK_PATHS == << <<"materia", "pesquisar-materia">>,
                  <<"sapl", "materia", "pesquisar-materia">> >>

\* build_candidates: f"https://{host}{path}" for every path
build_candidates(host) ==
    [i \in DOMAIN CHECK_PATHS |-> Url(host, CHECK_PATHS[i], 0)]

(* A municipality of the IBGE list with the two hosts the worker derives   *)
(* from it: f"sapl.{slug}.{uf}.leg.br" and f"{slug}.{uf}.leg.br".          *)
Item(id, nome, uf, sapl_host, base_host) ==
    [id |-> JInt(id), nome |-> JStr(nome), uf |-> JStr(uf),
     sapl_host |-> sapl_host, base_host |-> base_host]
ItemA == Item("1", "A", "SP", "https://sapl.a.sp.leg.br", "https://a.sp.leg.br")
ItemB == Item("2", "B", "MG", "https://sapl.b.mg.leg.br", "https://b.mg.leg.br")
ItemNoName == Item("3", "", "RJ", "", "")

\* validate_host returned None
NoV == [url |-> NoUrl, status |-> 0, marker |-> <<>>, title |-> <<>>]

(* A worker.  host: 1 the prefixed host, 2 the bare one; path: the index   *)
(* of the path probed; holds: the worker has a permit of the semaphore;    *)
(* conn: its request has a connection of the client's pool.  History:      *)
(* probed, the responses of the last call of validate_host, v its result,  *)
(* vdone whether that call has returned, asked the indices of the paths    *)
(* the call has requested, in order.                                       *)
NewWorker(item) ==
    [pc |-> "created", item |-> item, host |-> 0, path |-> 0, cands |-> <<>>,
     holds |-> FALSE, conn |-> FALSE, out |-> <<>>,
     probed |-> <<>>, v |-> NoV, vdone |-> FALSE, asked |-> <<>>]

DInFlight(t) == t.pc \in {"probe", "home", "cand"}

HostOf(items, t) ==
    IF t.host = 1 THEN items[t.item].sapl_host ELSE items[t.item].base_host

SourceOf(t) ==
    IF t.host = 1 THEN "ibge-heuristic" ELSE "base-host-endpoint"

\* the row of a confirmed host (scraper.py lines 171-180)
HostRow(item, source, url, marker, title) ==
    [ibge_id |-> item.id, municipio |-> item.nome, uf |-> item.uf,
     source |-> JStr(source), sapl_url |-> url, http_status |-> JInt("200"),
     marker |-> JStr(marker), title |-> JStr(title)]

\* the worker ends
DFinish(t) ==
    [t EXCEPT !.pc = "done", !.holds = FALSE, !.conn = FALSE, !.cands = <<>>]

\* async with sem: entered; validate_host sends its first probe
Probe(t) ==
    [t EXCEPT !.pc = "probe", !.holds = TRUE, !.conn = FALSE,
              !.host = @ + 1, !.path = 1, !.asked = <<1>>]

\* validate_host has returned v and the permit is given back (lines
\* 168-203 of scraper.py, check_host of sapl_finder.py; lines 381-397 for
\* a worker of discover_by_crtsh, "crtsh")
Validated(impl, items, t, v) ==
    LET row == HostRow(items[t.item],
                       IF impl = "crtsh" THEN "crtsh" ELSE SourceOf(t),
                       v.url, v.marker, v.title)
        t1 == [t EXCEPT !.holds = FALSE, !.conn = FALSE, !.v = v,
                        !.vdone = TRUE,
                        !.out = IF v # NoV THEN Append(@, row) ELSE @]
    IN IF impl = "crtsh" THEN DFinish(t1)
       ELSE IF t.host = 1 THEN [t1 EXCEPT !.pc = "want"]
       ELSE IF v = NoV /\ impl = "tools" THEN [t1 EXCEPT !.pc = "home"]
       ELSE DFinish(t1)

\* a faulty variant of OnProbe: a first request that raised is sent again
OnProbeRetries(impl, items, t, resp) ==
    LET g == try_get(resp)
        hit == looks_like_sapl(impl, g.html)
        t1 == [t EXCEPT !.conn = FALSE, !.vdone = FALSE,
                        !.probed = (IF t.vdone THEN <<>> ELSE @) \o <<resp>>]
    IN IF g.st = 200 /\ hit.ok
       THEN Validated(impl, items, t1,
                [url |-> build_candidates(HostOf(items, t))[t.path],
                 status |-> 200, marker |-> hit.marker,
                 title |-> Strip(TitleGroup(g.html))])
       ELSE IF g.st = 0 /\ t.asked = <<1>>
            THEN [t1 EXCEPT !.asked = Append(@, t.path)]
       ELSE IF t.path < Len(CHECK_PATHS)
            THEN [t1 EXCEPT !.path = @ + 1, !.asked = Append(@, t.path + 1)]
       ELSE Validated(impl, items, t1, NoV)

\* validate_host, one turn of its loop: the response of a probe
OnProbe(impl, items, t, resp) ==
    LET g == try_get(resp)
        hit == looks_like_sapl(impl, g.html)
        t1 == [t EXCEPT !.conn = FALSE, !.vdone = FALSE,
                        !.probed = (IF t.vdone THEN <<>> ELSE @) \o <<resp>>]
    IN IF g.st = 200 /\ hit.ok
       THEN Validated(impl, items, t1,
                [url |-> build_candidates(HostOf(items, t))[t.path],
                 status |-> 200, marker |-> hit.marker,
                 title |-> Strip(TitleGroup(g.html))])
       ELSE IF t.path < Len(CHECK_PATHS)
            THEN [t1 EXCEPT !.path = @ + 1, !.asked = Append(@, t.path + 1)]
       ELSE Validated(impl, items, t1, NoV)

LINK_HINTS == {"materia/pesquisar-materia", "/sapl", "sapl."}

\* the links a portal page may carry, in the order sorted() gives their
\* candidates, with the hint each contains ("" for none)
PortalLinks == <<"/sapl", "https://sapl.ext.leg.br/", "/noticias">>
HintIn(link) ==
    CASE link = "/sapl" -> "/sapl"
      [] link = "https://sapl.ext.leg.br/" -> "sapl."
      [] OTHER -> ""

\* the candidate of a link (lines 209-222)
CandOf(base_host, link) ==
    IF link = "/sapl"
    THEN Url(base_host, <<"sapl", "materia", "pesquisar-materia">>, 0)
    ELSE Url("https://sapl.ext.leg.br", <<>>, 0)

\* sorted(set(candidates)) of the hrefs of a page (lines 207-219)
Candidates(base_host, html) ==
    LET hrefs == {html[k].link : k \in {x \in DOMAIN html : html[x].k = "href"}}
        kept == SelectSeq(PortalLinks,
                          LAMBDA l : l \in hrefs /\ HintIn(l) \in LINK_HINTS)
    IN [i \in DOMAIN kept |-> CandOf(base_host, kept[i])]

\* the response of the portal's home page (lines 204-222)
OnHome(items, t, resp) ==
    LET g == try_get(resp)
        cs == Candidates(items[t.item].base_host, g.html)
    IN IF g.st \in {200, 301, 302} /\ g.html # <<>> /\ cs # <<>>
       THEN [t EXCEPT !.pc = "cand", !.conn = FALSE, !.cands = cs]
       ELSE DFinish(t)

\* the response of a candidate of the portal scan (lines 223-254)
OnCand(impl, items, t, resp) ==
    LET g == try_get(resp)
        hit == looks_like_sapl(impl, g.html)
        row == HostRow(items[t.item], "portal-link-scan", Head(t.cands),
                       hit.marker, Strip(TitleGroup(g.html)))
    IN IF g.st = 200 /\ hit.ok THEN DFinish([t EXCEPT !.out = Append(@, row)])
       ELSE IF Len(t.cands) > 1
            THEN [t EXCEPT !.cands = Tail(@), !.conn = FALSE]
       ELSE DFinish(t)

DResume(impl, items, t, resp) ==
    CASE t.pc = "probe" -> OnProbe(impl, items, t, resp)
      [] t.pc = "home" -> OnHome(items, t, resp)
      [] t.pc = "cand" -> OnCand(impl, items, t, resp)

\* the URL of the request in flight
DReqUrl(items, t) ==
    CASE t.pc = "probe" -> build_candidates(HostOf(items, t))[t.path]
      [] t.pc = "home" -> Url(items[t.item].base_host, <<>>, 0)
      [] t.pc = "cand" -> Head(t.cands)

T_Portal ==
    <<"P", "o", "r", "t", "a", "l", " ", "d", "a", " ", "C", "a", "m",
      "a", "r", "a">>

T_MateriasUpper ==
    <<"M", "A", "T", "E_acute", "R", "I", "A", "S", " ", "L", "E", "G",
      "I", "S", "L", "A", "T", "I", "V", "A", "S">>

T_TitleSapl ==
    <<"<", "T", "I", "T", "L", "E", ">", " ", "S", "a", "p", "l", " ",
      "C", "a", "m", "a", "r", "a", " ", "<", "/", "T", "I", "T",
      "L", "E", ">">>

T_TitleOther ==
    <<"<", "t", "i", "t", "l", "e", ">", "C", "a", "m", "a", "r", "a",
      "<", "/", "t", "i", "t", "l", "e", ">">>

\* the responses of a host to a GET: the status (0: the request raised)
\* and the body
Page(st, body) == [st |-> st, body |-> body]
Down == Page(0, <<>>)

Bodies ==
    {<<>>, <<Text(T_Portal)>>, <<Text(M_Interlegis)>>,
     <<Text(M_PesquisarAcc)>>, <<Text(M_Pesquisar)>>,
     <<Text(T_MateriasUpper)>>, <<Text(T_TitleSapl)>>,
     <<Text(T_TitleOther)>>,
     <<Filler(TEXT_LIMIT - 10), Text(M_Interlegis)>>}

ProbeResponses(rich) ==
    {Down, Page(200, <<Text(M_Interlegis)>>)}
    \cup (IF rich
          THEN {Page(404, <<Text(M_Interlegis)>>)}
               \cup {Page(200, b) : b \in Bodies}
          ELSE {})

HomeResponses(rich) ==
    {Down, Page(200, <<Href("/sapl", 20), Href("/noticias", 20)>>)}
    \cup (IF rich
          THEN {Page(200, <<Text(T_Portal)>>), Page(404, <<Href("/sapl", 20)>>),
                Page(200, <<Href("https://sapl.ext.leg.br/", 40),
                            Href("/sapl", 20)>>),
                Page(200, <<Filler(TEXT_LIMIT - 10), Href("/sapl", 20)>>)}
          ELSE {})

CandResponses(rich) ==
    ProbeResponses(FALSE)
    \cup (IF rich THEN {Page(200, <<Text(T_TitleSapl)>>),
                        Page(200, <<Text(T_Portal)>>)} ELSE {})

DResponses(rich, pc) ==
    CASE pc = "home" -> HomeResponses(rich)
      [] pc = "cand" -> CandResponses(rich)
      [] OTHER -> ProbeResponses(rich)

DiscoverConf(impl, c, rich, items) ==
    [spec |-> "discover",
     writer |-> IF impl = "tools" THEN "ProgressWriter" ELSE "register_result",
     impl |-> impl, concurrency |-> c, rich |-> rich, items |-> items]

DiscoverConfs ==
    {DiscoverConf(i, 1, TRUE, <<ItemA>>) : i \in {"tools", "exp"}}
    \cup {DiscoverConf("tools", c, FALSE, <<ItemA, ItemB>>) :
            c \in 1..MaxConcurrency}
    \cup {DiscoverConf("tools", 1, FALSE, <<ItemNoName, ItemA>>),
          DiscoverConf("exp", 1, FALSE, <<ItemA, ItemB>>)}

InitD ==
    /\ conf \in DiscoverConfs
    /\ WriterInit
    /\ RunIdle

\* discover_by_ibge asks for the list of municipalities (line 149)
DFetch ==
    /\ run = "idle"
    /\ run' = "ibge"
    /\ UNCHANGED <<conf, opened, candLog, ret, query, wvars, sem, tasks, sent>>

\* the list arrives, or not: the semaphore and the workers (lines 150-158,
\* 256), or the end of the strategy
DData ==
    /\ run = "ibge"
    /\ \E ok \in BOOLEAN :
          IF ok
          THEN /\ run' = "gather"
               /\ sem' = conf.concurrency
               /\ tasks' = [i \in DOMAIN conf.items |-> NewWorker(i)]
               /\ UNCHANGED <<wvars>>
          ELSE /\ run' = "closed"
               /\ FinalizeJson
               /\ UNCHANGED <<sem, tasks, calls>>
    /\ UNCHANGED <<conf, opened, candLog, ret, query, sent>>

\* the connections of the client's pool in use
Connections == Cardinality({i \in DOMAIN tasks : tasks[i].conn})

(* The effects of one step of worker i that leaves it as t.  A worker that *)
(* wants the semaphore ("want") takes a permit when one is free; when      *)
(* others already wait it may have to queue behind them (barge: it does    *)
(* not).                                                                   *)
DStep(i, t, barge) ==
    LET freed == IF tasks[i].holds /\ ~t.holds THEN sem + 1 ELSE sem
        waiters == \E j \in DOMAIN tasks : j # i /\ tasks[j].pc = "sem"
        take == t.pc = "want" /\ freed > 0 /\ (barge \/ ~waiters)
        t2 == IF t.pc # "want" THEN t
              ELSE IF take THEN Probe(t) ELSE [t EXCEPT !.pc = "sem"]
    IN /\ tasks' = [tasks EXCEPT ![i] = [t2 EXCEPT !.out = <<>>]]
       /\ sem' = IF take THEN freed - 1 ELSE freed
       /\ SetWriter(EmitAll(conf.writer, Writer, t.out))
       /\ sent' = IF DInFlight(t2)
                  THEN sent \cup {DReqUrl(conf.items, t2).origin} ELSE sent
       /\ UNCHANGED <<conf, opened, candLog, ret, query, run, snapshot, calls>>

\* a worker starts (lines 159-167)
DStart(i) ==
    /\ run = "gather"
    /\ tasks[i].pc = "created"
    /\ \E barge \in BOOLEAN :
          IF /\ conf.impl # "crtsh"
             /\ Falsy(conf.items[i].nome) \/ Falsy(conf.items[i].uf)
          THEN DStep(i, DFinish(tasks[i]), barge)
          ELSE DStep(i, [tasks[i] EXCEPT !.pc = "want"], barge)

\* a waiting worker gets the semaphore
DAcquire(i) ==
    /\ run = "gather"
    /\ tasks[i].pc = "sem"
    /\ sem > 0
    /\ DStep(i, [tasks[i] EXCEPT !.pc = "want"], TRUE)

\* the request in flight gets a connection of the pool
\* (httpx.Limits(max_connections=concurrency))
DConnect(i) ==
    /\ run = "gather"
    /\ DInFlight(tasks[i])
    /\ ~tasks[i].conn
    /\ Connections < conf.concurrency
    /\ tasks' = [tasks EXCEPT ![i].conn = TRUE]
    /\ UNCHANGED <<conf, opened, candLog, ret, query, wvars, run, sem, sent>>

\* the response of the request in flight arrives, or the request fails
\* (before it has a connection it can only fail)
DRespond(i) ==
    /\ run = "gather"
    /\ DInFlight(tasks[i])
    /\ \E resp \in DResponses(conf.rich, tasks[i].pc), barge \in BOOLEAN :
          /\ tasks[i].conn \/ resp = Down
          /\ \E t \in {DResume(conf.impl, conf.items, tasks[i], resp)} :
                DStep(i, t, barge)

\* gather returns: the strategy is over, finalize_json and close
DGatherDone ==
    /\ run = "gather"
    /\ \A i \in DOMAIN tasks : tasks[i].pc = "done"
    /\ run' = "closed"
    /\ FinalizeJson
    /\ UNCHANGED <<conf, opened, candLog, ret, query, calls, sem, tasks, sent>>

NextD ==
    \/ DFetch
    \/ DData
    \/ \E i \in DOMAIN tasks : DStart(i)
    \/ \E i \in DOMAIN tasks : DAcquire(i)
    \/ \E i \in DOMAIN tasks : DConnect(i)
    \/ \E i \in DOMAIN tasks : DRespond(i)
    \/ DGatherDone

SpecD == InitD /\ [][NextD]_vars

----------------------------------------------------------------------------
(* discover_by_crtsh: the partition queries of the certificate search with *)
(* their retries, then one worker per host found.  Times are in tenths of  *)
(* a second.                                                               *)

BACKOFF_START == 15
BACKOFF_CAP == 200
ATTEMPTS == 5

\* the partitions queried (the characters of CRT_SH_PART_CHARS)
NParts == 2

Min(a, b) == IF a < b THEN a ELSE b

\* a faulty variant of NextBackoff: no cap
NextBackoffUncapped(b) == b * 2

\* line 306: backoff = min(backoff * 2, 20)
NextBackoff(b) == Min(b * 2, BACKOFF_CAP)

(* query_crtsh is entered (lines 270-273).  part: the partition, NParts + 1 *)
(* the unpartitioned query; got: what all_rows holds ("none", "rows",      *)
(* "bad": rows that are no objects).  History: delays, the delays slept    *)
(* in this query, failed, its attempts that failed, and lret, lfailed,     *)
(* ldelays, the result, failures and delays of the query that returned     *)
(* last; hist, the results of the queries that have returned, in order;    *)
(* passed, the hostnames handed to on_candidate, in call order.  emitted   *)
(* is emitted_candidates (line 314).                                       *)
NewQuery(part, got) ==
    [pc |-> "fetch_json", part |-> part, attempt |-> 0,
     backoff |-> BACKOFF_START, status_f |-> 0, got |-> got,
     delays |-> <<>>, failed |-> 0,
     lret |-> "none", lfailed |-> 0, ldelays |-> <<>>,
     hist |-> <<>>, passed |-> <<>>, emitted |-> {}]

(* A hostname is the sequence of its labels.  The names the certificates   *)
(* of a run carry, in the order sorted() gives them.                       *)
N_Camara == <<"camara", "a", "sp", "leg", "br">>
N_SaplA == <<"sapl", "a", "sp", "leg", "br">>
N_SaplX == <<"sapl", "x", "leg", "br">>
N_SaplCom == <<"sapl", "y", "com", "br">>
NameOrder == <<N_Camara, N_SaplA, N_SaplX, N_SaplCom>>

\* n.startswith("sapl.") and n.endswith(".leg.br")
StartsSapl(n) == Len(n) > 1 /\ n[1] = "sapl"
EndsLegBr(n) == Len(n) > 2 /\ n[Len(n) - 1] = "leg" /\ n[Len(n)] = "br"

\* f"https://{host}" of a name
OriginOfName(n) ==
    CASE n = N_Camara -> "https://camara.a.sp.leg.br"
      [] n = N_SaplA -> "https://sapl.a.sp.leg.br"
      [] n = N_SaplX -> "https://sapl.x.leg.br"
      [] OTHER -> "https://sapl.y.com.br"

\* sorted({n for n in names if n.endswith('.leg.br')}) (lines 328, 352)
LegBrNames(names) ==
    SelectSeq(NameOrder, LAMBDA n : n \in names /\ EndsLegBr(n))

\* hosts (line 368): the names of both the prefix and the suffix, sorted
CrtHosts(names) ==
    SelectSeq(NameOrder,
              LAMBDA n : n \in names /\ StartsSapl(n) /\ EndsLegBr(n))

\* the calls of on_candidate for the rows of a query (lines 319-334,
\* 342-355): the names ending in .leg.br that were not emitted before
Emitted(q, names) ==
    LET new == SelectSeq(LegBrNames(names), LAMBDA n : n \notin q.emitted)
    IN [q EXCEPT !.passed = @ \o new,
                 !.emitted = @ \cup {new[k] : k \in DOMAIN new}]

RECURSIVE DedupeHosts(_, _)
\* CandidatesWriter.emit over the calls: one line per host not seen
DedupeHosts(calls_, acc) ==
    IF calls_ = <<>> THEN acc
    ELSE DedupeHosts(Tail(calls_),
                     IF \E k \in DOMAIN acc : acc[k] = Head(calls_) THEN acc
                     ELSE Append(acc, Head(calls_)))

\* a faulty variant of QueryReturn: the unpartitioned query is sent when
\* the last partition alone came back empty
QueryReturnLastOnly(q, res) ==
    LET got == IF res = "empty" THEN q.got
               ELSE IF res = "bad" \/ q.got = "bad" THEN "bad" ELSE "rows"
        nxt == IF q.part < NParts THEN NewQuery(q.part + 1, got)
               ELSE IF q.part = NParts /\ res = "empty"
                    THEN NewQuery(NParts + 1, got)
               ELSE [NewQuery(q.part, got) EXCEPT !.pc = "end"]
        e == IF res = "rows" THEN Emitted(q, conf.names) ELSE q
        h == [nxt EXCEPT !.lret = res, !.lfailed = q.failed,
                         !.ldelays = q.delays, !.hist = Append(q.hist, res),
                         !.passed = e.passed, !.emitted = e.emitted]
    IN IF h.pc = "end" /\ got = "rows"
       THEN [h EXCEPT !.passed = @ \o CrtHosts(conf.names)]
       ELSE h

\* a faulty variant of QueryReturn: a partition that comes back empty ends
\* the queries
QueryReturnStops(q, res) ==
    LET got == IF res = "empty" THEN q.got
               ELSE IF res = "bad" \/ q.got = "bad" THEN "bad" ELSE "rows"
        nxt == IF q.part < NParts /\ res # "empty"
               THEN NewQuery(q.part + 1, got)
               ELSE IF q.part = NParts /\ got = "none"
                    THEN NewQuery(NParts + 1, got)
               ELSE [NewQuery(q.part, got) EXCEPT !.pc = "end"]
        e == IF res = "rows" THEN Emitted(q, conf.names) ELSE q
        h == [nxt EXCEPT !.lret = res, !.lfailed = q.failed,
                         !.ldelays = q.delays, !.hist = Append(q.hist, res),
                         !.passed = e.passed, !.emitted = e.emitted]
    IN IF h.pc = "end" /\ got = "rows"
       THEN [h EXCEPT !.passed = @ \o CrtHosts(conf.names)]
       ELSE h

\* query_crtsh returns res ("rows", "bad" or "empty"): the next partition,
\* the unpartitioned query when nothing came (lines 337-340), or the end
\* of the queries; on_candidate is called for the names of the rows
\* (lines 319-334, 342-355) and, at the end, for the hosts (lines 370-375)
QueryReturn(q, res) ==
    LET got == IF res = "empty" THEN q.got
               ELSE IF res = "bad" \/ q.got = "bad" THEN "bad" ELSE "rows"
        nxt == IF q.part < NParts THEN NewQuery(q.part + 1, got)
               ELSE IF q.part = NParts /\ got = "none"
                    THEN NewQuery(NParts + 1, got)
               ELSE [NewQuery(q.part, got) EXCEPT !.pc = "end"]
        e == IF res = "rows" THEN Emitted(q, conf.names) ELSE q
        h == [nxt EXCEPT !.lret = res, !.lfailed = q.failed,
                         !.ldelays = q.delays, !.hist = Append(q.hist, res),
                         !.passed = e.passed, !.emitted = e.emitted]
    IN IF h.pc = "end" /\ got = "rows"
       THEN [h EXCEPT !.passed = @ \o CrtHosts(conf.names)]
       ELSE h

\* what fetch_json makes of the response of crt.sh (lines 35-82, 274-278):
\* a truthy value, the rows, or nothing
FetchJsonResults == {"rows", "bad", "none"}

\* fetch_json has returned (lines 273-279)
OnFetchJson(q, js) ==
    IF js = "none" THEN [q EXCEPT !.pc = "try_get"] ELSE QueryReturn(q, js)

\* the responses to try_get (line 279): status and what the text holds
\* ("ndjson": lines of objects, "hosts": a page naming hosts, "text": a
\* page naming none)
TryGetResults ==
    {[st |-> 200, text |-> x] : x \in {"ndjson", "hosts", "text", ""}}
    \cup {[st |-> st, text |-> "text"] : st \in {429, 503, 500}}
    \cup {[st |-> 0, text |-> ""]}

\* try_get has returned (lines 279-308)
OnTryGet(q, r) ==
    IF r.st = 200 /\ r.text \in {"ndjson", "hosts"} THEN QueryReturn(q, "rows")
    ELSE LET f == [q EXCEPT !.failed = @ + 1, !.status_f = r.st]
         IN IF r.st \in {429, 503} \/ q.attempt < ATTEMPTS - 1
            THEN [f EXCEPT !.pc = "sleep"]
            ELSE QueryReturn(f, "empty")

\* asyncio.sleep(backoff) is over (lines 305-307, 272, 309)
OnSleep(q) ==
    LET s == [q EXCEPT !.delays = Append(@, q.backoff),
                       !.backoff = NextBackoff(@),
                       !.attempt = @ + 1]
    IN IF s.attempt < ATTEMPTS THEN [s EXCEPT !.pc = "fetch_json"]
       ELSE QueryReturn(s, "empty")

\* a host named by a certificate, as the worker sees it
CrtItem(host) ==
    [id |-> JStr(""), nome |-> JStr(""), uf |-> JStr(""),
     sapl_host |-> host, base_host |-> ""]

\* the rows discover_by_ibge has handed to on_found before
\* discover_by_crtsh starts (cli.py lines 33-39)
IbgeFound ==
    {<<>>,
     <<HostRow(ItemA, "ibge-heuristic",
               build_candidates(ItemA.sapl_host)[1], M_Interlegis, <<>>)>>}

\* the workers' items: one for each of hosts (lines 368, 377-399)
HostItems(names) ==
    [k \in DOMAIN CrtHosts(names) |-> CrtItem(OriginOfName(CrtHosts(names)[k]))]

\* names: the names the certificates of crt.sh carry
CrtConfs ==
    {[spec |-> "crtsh", writer |-> "ProgressWriter", impl |-> "crtsh",
      concurrency |-> c, rich |-> FALSE, names |-> ns,
      items |-> HostItems(ns)] :
        c \in 1..MaxConcurrency,
        ns \in {{}, {N_SaplA, N_SaplX},
                {N_Camara, N_SaplA, N_SaplX, N_SaplCom}}}

InitC ==
    /\ conf \in CrtConfs
    /\ WriterInit
    /\ RunIdle

\* run_async: discover_by_ibge has run, discover_by_crtsh sends its first
\* query (cli.py lines 33-39, scraper.py lines 312-316)
CStart ==
    /\ run = "idle"
    /\ run' = "crtsh"
    /\ query' = NewQuery(1, "none")
    /\ \E rs \in IbgeFound : SetWriter(EmitAll(conf.writer, Writer, rs))
    /\ UNCHANGED <<conf, opened, candLog, ret, snapshot, calls, sem, tasks, sent>>

(* The coroutine goes on as q after an await of query_crtsh.  At the end   *)
(* of the queries: nothing found, the strategy returns (lines 356-358);    *)
(* a row that is no object, row.get raises (line 361); otherwise the       *)
(* workers (lines 377-399).  on_cand of cli.py hands every host passed   *)
(* to on_candidate to CandidatesWriter.emit, which writes one line for     *)
(* each host it has not seen (cli.py lines 26-31, output.py lines 151-162).*)
CStep(q) ==
    /\ query' = q
    /\ candLog' = DedupeHosts(q.passed, <<>>)
    /\ IF q.pc # "end" THEN UNCHANGED <<run, sem, tasks, wvars>>
       ELSE IF q.got = "rows"
            THEN /\ run' = "gather"
                 /\ sem' = conf.concurrency
                 /\ tasks' = [i \in DOMAIN conf.items |-> NewWorker(i)]
                 /\ UNCHANGED wvars
       ELSE IF q.got = "none"
            THEN /\ run' = "closed"
                 /\ FinalizeJson
                 /\ UNCHANGED <<sem, tasks, calls>>
       ELSE /\ run' = "aborted"
            /\ UNCHANGED <<sem, tasks, wvars>>
    /\ UNCHANGED <<conf, opened, ret, sent>>

CFetchJson ==
    /\ run = "crtsh"
    /\ query.pc = "fetch_json"
    /\ \E js \in FetchJsonResults : CStep(OnFetchJson(query, js))

CTryGet ==
    /\ run = "crtsh"
    /\ query.pc = "try_get"
    /\ \E r \in TryGetResults : CStep(OnTryGet(query, r))

CSleep ==
    /\ run = "crtsh"
    /\ query.pc = "sleep"
    /\ CStep(OnSleep(query))

NextC ==
    \/ CStart
    \/ CFetchJson
    \/ CTryGet
    \/ CSleep
    \/ \E i \in DOMAIN tasks : DStart(i)
    \/ \E i \in DOMAIN tasks : DAcquire(i)
    \/ \E i \in DOMAIN tasks : DConnect(i)
    \/ \E i \in DOMAIN tasks : DRespond(i)
    \/ DGatherDone

SpecC == InitC /\ [][NextC]_vars

----------------------------------------------------------------------------
(* slugify: the slug of a municipality's name, of which the worker builds  *)
(* the two hostnames (scraper.py line 165, sapl_finder.py line 420)        *)

AsciiLower == {LowerChars[i] : i \in 1..26}
Digits == {"0", "1", "2", "3", "4", "5", "6", "7", "8", "9"}

\* re.sub(r"[^a-z0-9\s-]", " ", s)
Blanked(s) ==
    [i \in DOMAIN s |->
        IF s[i] \in AsciiLower \cup Digits \/ IsSpace(s[i]) \/ s[i] = "-"
        THEN s[i] ELSE " "]

\* re.sub(r"\s+", "", s) and re.sub(r"-+", "", s)
NoSpaces(s) == SelectSeq(s, LAMBDA c : ~IsSpace(c))
NoHyphens(s) == SelectSeq(s, LAMBDA c : c # "-")

\* a faulty variant of slugify: the hyphens stay
slugifyKeepsHyphens(city) ==
    NoSpaces(Blanked(Lower(StripCombining(Nfkd(city)))))

\* slugify of src/tools/sapl_finder/scraper.py
slugify(city) ==
    NoHyphens(NoSpaces(Blanked(Lower(StripCombining(Nfkd(city))))))

\* slugify of src/experiments/tools/sapl_finder/sapl_finder.py; its
\* patterns, written "[^a-z0-9\\s-]" without the r prefix, are the same
slugify_exp(city) ==
    LET text == Lower(StripCombining(Nfkd(city)))
    IN NoHyphens(NoSpaces(Blanked(text)))

MaxCity == 3

\* the characters of the names: letters of both cases, with an accent,
\* precomposed or as a combining mark, a digit and separators
CityChars == {"A", "b", "E_acute", "e_acute", "comb_acute", " ", "-", "'", "7"}

RECURSIVE Names(_)
\* the names of at most n characters
Names(n) ==
    IF n = 0 THEN {<<>>}
    ELSE Names(n - 1)
         \cup {Append(s, c) : s \in {x \in Names(n - 1) : Len(x) = n - 1},
                              c \in CityChars}

InitS ==
    /\ conf \in {[spec |-> "slugify", city |-> c] : c \in Names(MaxCity)}
    /\ WriterInit
    /\ RunIdle

\* the worker computes the slug of the name
Slugify ==
    /\ run = "idle"
    /\ run' = "slug"
    /\ tasks' = <<[slug |-> slugify(conf.city),
                   slug_exp |-> slugify_exp(conf.city)]>>
    /\ UNCHANGED <<conf, opened, candLog, ret, query, wvars, sem, sent>>

NextS == Slugify

SpecS == InitS /\ [][NextS]_vars

----------------------------------------------------------------------------
(* Specification of a Writer alone: any sequence of accept calls *)

WBases == {NoUrl, Url(OriginA, <<>>, 0)}
WMids == {None, JInt("1"), JStr("1"), JInt("2")}
WEmentas == {"e1", "e2"}

\* a bill row, cut to the fields the Writers look at and one more
WRow(base, mid, ementa) ==
    [sapl_base |-> base, materia_id |-> mid, ementa |-> JStr(ementa)]

\* a host row of the discovery
WHost(url, source) == [sapl_url |-> url, source |-> JStr(source)]

WRows(impl) ==
    IF impl = "ProgressWriter"
    THEN {WHost(u, src) : u \in {NoUrl, Url(OriginA, <<>>, 0),
                                 Url(OriginB, <<>>, 0)},
                         src \in {"pattern", "crtsh"}}
         \cup {WHost(Url(o, <<>>, 0), "pattern") @@ ("uf" :> JStr(uf)) :
                  o \in {OriginA, OriginB}, uf \in {"SP", "MG"}}
    ELSE {WRow(b, m, e) : b \in WBases, m \in WMids, e \in WEmentas}

InitW ==
    /\ conf \in {[spec |-> "writer", writer |-> w] : w \in WriterImpls}
    /\ WriterInit
    /\ RunIdle

(* One call of emit / write / on_found.  After dedupe_file the path of the *)
(* JSONL file names the rewritten copy (os.replace, line 141) while the    *)
(* Writer still holds the descriptor of the replaced file: what it writes  *)
(* from then on does not reach the file of that path.                      *)
WAccept ==
    /\ Len(calls) < MaxCalls
    /\ \E row \in WRows(conf.writer) :
          LET w == Emit(conf.writer, Writer, row)
          IN /\ SetWriter(IF run = "deduped"
                          THEN [w EXCEPT !.jsonlLog = jsonlLog] ELSE w)
             /\ calls' = Append(calls, row)
             /\ ret' = Returned(conf.writer, Writer, row)
    /\ UNCHANGED <<conf, opened, candLog, query, rvars, snapshot>>

WFinalize ==
    /\ conf.writer \in {"PLWriter", "ProgressWriter"}
    /\ FinalizeJson
    /\ UNCHANGED <<conf, opened, candLog, ret, query, rvars, calls>>

WDedupe ==
    /\ conf.writer = "JsonlWriterUtils"
    /\ DedupeFile
    /\ run' = "deduped"
    /\ UNCHANGED <<conf, opened, candLog, ret, query, sem, tasks, sent, calls>>

NextW == WAccept \/ WFinalize \/ WDedupe

SpecW == InitW /\ [][NextW]_vars

----------------------------------------------------------------------------
(* Properties of the Writers *)

\* the (host base, bill id) of a bill row
PairOf(row) == <<Get(row, "sapl_base", NoUrl), Get(row, "materia_id", None)>>

\* the row has a host base and a bill id
Keyed(row) == PairOf(row)[1] # NoUrl /\ PairOf(row)[2] # None

(* C1: when accept has been called twice or more, every time with a row   *)
(* of one and the same (host base, bill id), whatever the other fields of  *)
(* the rows, the log holds exactly one record and the count is 1.          *)
C1_DedupIdempotence ==
    (/\ Len(calls) >= 2
     /\ \A i \in DOMAIN calls :
           Keyed(calls[i]) /\ PairOf(calls[i]) = PairOf(calls[1]))
        => (Len(jsonlLog) = 1 /\ count = 1)

\* s is a prefix of t
IsPrefix(s, t) == Len(s) <= Len(t) /\ \A i \in DOMAIN s : s[i] = t[i]

(* C8: the persisted set is append-only: every step leaves the log (the    *)
(* JSONL file, the CSV file, the kept rows) with its former content as a   *)
(* prefix, and the seen set only grows.                                    *)
C8_AppendOnly ==
    [][/\ IsPrefix(jsonlLog, jsonlLog')
       /\ IsPrefix(csvLog, csvLog')
       /\ IsPrefix(rows, rows')
       /\ seen \subseteq seen']_vars

\* two records are in the log, a repeated one was refused, and dedupe_file
\* or finalize_json has run or an unkeyed host row was refused
C8_Witness ==
    /\ Len(jsonlLog) = 2
    /\ Len(calls) = 3
    /\ \/ run = "deduped"
       \/ snapshot # <<>>
       \/ conf.writer \in {"JsonlWriter", "ProgressWriter"}

\* the order of the aggregate: ProgressWriter's sort key; for the bill
\* rows the dedup key, host base then bill id
SnapKey(x) ==
    IF conf.writer = "ProgressWriter" THEN FinderKey(x)
    ELSE UrlKey(PairOf(x)[1]) \o <<StrRank(Str(PairOf(x)[2]))>>

(* C21: finalize writes a sorted, deduplicated aggregate: the snapshot it  *)
(* leaves holds every accepted record exactly once, no two entries with    *)
(* the same dedup key, and its entries are in sorted order.                *)
C21_FinalizeSorted ==
    [][snapshot' # snapshot
         => /\ Len(snapshot') = Len(rows)
            /\ \A k \in DOMAIN rows :
                  \E j \in DOMAIN snapshot' : snapshot'[j] = rows[k]
            /\ \A j, k \in DOMAIN snapshot' :
                  /\ (WriterKey(conf.writer, snapshot'[j])
                        = WriterKey(conf.writer, snapshot'[k])) => j = k
                  /\ j < k => ~SeqLess(SnapKey(snapshot'[k]),
                                       SnapKey(snapshot'[j]))]_vars

\* the Writer after the calls of accept made so far and nothing else
Replayed ==
    EmitAll(conf.writer,
            [seen |-> {}, rows |-> <<>>, count |-> 0, csvLog |-> <<>>,
             jsonlLog |-> <<>>],
            calls)

(* C22: finalize is independent of the log: whether and when finalize was  *)
(* called, the log, the seen set and the count are those the accept calls  *)
(* alone produce.                                                          *)
C22_FinalizeIndependent ==
    conf.writer \in {"PLWriter", "ProgressWriter"}
        => /\ jsonlLog = Replayed.jsonlLog
           /\ csvLog = Replayed.csvLog
           /\ seen = Replayed.seen
           /\ count = Replayed.count

\* finalize has written an aggregate and a record was accepted after it
C22_Witness ==
    /\ conf.writer \in {"PLWriter", "ProgressWriter"}
    /\ snapshot # <<>>
    /\ Len(jsonlLog) > Len(snapshot)

----------------------------------------------------------------------------
(* C29: accept reports its outcome: a call with a record whose key was     *)
(* already seen returns false and changes nothing of the Writer; a call    *)
(* that appends the record to the log returns true.                        *)
C29_AcceptReports ==
    [][calls' # calls
          => LET row == calls'[Len(calls')]
                 key == WriterKey(conf.writer, row)
             IN /\ key # <<>> /\ key \in seen
                      => /\ ret' = "False"
                         /\ UNCHANGED <<seen, rows, count, csvLog, jsonlLog>>
                /\ Accepted(conf.writer, Writer, row) => ret' = "True"]_vars

C3_LoopGuard ==
    \A i \in DOMAIN tasks :
        (tasks[i].nsig >= 1 /\ tasks[i].same)
            => /\ tasks[i].npages <= 2
               /\ tasks[i].pc = "page" => tasks[i].npages <= 1

\* the guard has fired: two pages yielded, two equal signatures computed,
\* and the task has ended
C3_Witness ==
    \E i \in DOMAIN tasks :
        /\ tasks[i].pc = "done"
        /\ tasks[i].nsig = 2 /\ tasks[i].same
        /\ tasks[i].npages = 2

(* C4: Scenario B.  Once the host has served 3 pages of 2 items, page 1    *)
(* linking to page 2, page 2 to page 3 and page 3 back to page 2's URL,    *)
(* the log holds exactly 6 records, of 6 different bills, and no 4th page  *)
(* request is sent.                                                        *)
C4_ScenarioB ==
    \A i \in DOMAIN tasks :
        (conf.impl = "main" /\ tasks[i].scen = Len(ScenarioB))
            => /\ Len(jsonlLog) = 6
               /\ Cardinality({jsonlLog[k].materia_id : k \in DOMAIN jsonlLog}) = 6
               /\ tasks[i].pc # "page"

\* the run is over: closed, left by an exception, or never started
RunEnded == run \in {"closed", "aborted", "missing"}

(* The extraction under asyncio's scheduling: a task that can run does run *)
(* (the event loop serves every ready task), every request comes back      *)
(* (response, failure or timeout), and run_scrape goes on when it can.     *)
FairConfs ==
    {[ExtractConf("main", FALSE, c, FALSE, <<LineA, LineB>>)
         EXCEPT !.fair = TRUE] : c \in 1..MaxConcurrency}

\* task i awaits the response of a request
Awaiting(i) == i \in DOMAIN tasks /\ run = "gather" /\ InFlight(tasks[i])

(* Every request comes back: a task that awaits a response for ever gets   *)
(* one again and again (tick, the parity of the responses it has received  *)
(* while in flight, changes again and again).                              *)
RequestsReturn(i) ==
    /\ []<>(~Awaiting(i) \/ tasks[i].tick = 0)
    /\ []<>(~Awaiting(i) \/ tasks[i].tick = 1)

InitXFair ==
    /\ conf \in FairConfs
    /\ WriterInit
    /\ RunIdle

SpecXFair ==
    /\ InitXFair
    /\ [][NextX]_vars
    /\ WF_vars(RunScrape)
    /\ WF_vars(GatherDone)
    /\ WF_vars(GatherRaise)
    /\ \A i \in 1..2 :
          /\ WF_vars(i \in DOMAIN tasks /\ (Start(i) \/ Acquire(i)))
          /\ RequestsReturn(i)

(* C5: a run always completes: every run reaches its end.                  *)
C5_RunCompletes == <>RunEnded

\* list_tipos_pl is under way in task i
TiposUnderWay(i) == i \in DOMAIN tasks /\ tasks[i].pc = "tipos"

(* C36: fetching a host's type taxonomy terminates whatever the host       *)
(* answers: a task that is in list_tipos_pl leaves it, also when the       *)
(* continuation of a response names the request just made.                 *)
C36_TiposTerminates == \A i \in 1..2 : TiposUnderWay(i) ~> ~TiposUnderWay(i)

(* C7: the hosts are independent: whatever a host answers, the run is not  *)
(* left by an exception and no task of another host is cancelled.          *)
C7_HostsIndependent ==
    /\ run # "aborted"
    /\ \A i \in DOMAIN tasks : tasks[i].pc # "cancelled"

(* C9: accept is atomic under every interleaving of the tasks: the log has *)
(* one whole line per accepted record, no two lines of one key, and the    *)
(* seen set, the count and, for a Writer that keeps them, the CSV file and *)
(* the kept rows agree with it.                                            *)
C9_AtomicAccept ==
    /\ \A i, j \in DOMAIN jsonlLog :
          i # j => WriterKey(conf.writer, jsonlLog[i])
                     # WriterKey(conf.writer, jsonlLog[j])
    /\ seen = {WriterKey(conf.writer, jsonlLog[k]) : k \in DOMAIN jsonlLog}
    /\ count = Len(jsonlLog)
    /\ KeepsRows(conf.writer)
          => /\ rows = jsonlLog
             /\ csvLog = [k \in DOMAIN jsonlLog |->
                             CsvRow(conf.writer, jsonlLog[k])]

\* two tasks of the same base are under way at once, each past its first
\* page, and the records of that page are in the log once
C9_Witness ==
    /\ Len(tasks) = 2
    /\ tasks[1].base = tasks[2].base
    /\ \A i \in {1, 2} : InFlight(tasks[i]) /\ tasks[i].npages >= 1
    /\ Len(jsonlLog) = 2

\* the bases of the hosts of the validated-host stream
InputBases ==
    {base_from_sapl_url(conf.input[k].sapl_url) :
        k \in {x \in DOMAIN conf.input : Parses(conf.input[x])
                                         /\ conf.input[x].sapl_url # NoUrl}}

(* C10: every record of the log carries the base of a host of the          *)
(* validated-host stream, and every request went to the origin of such a   *)
(* base.                                                                   *)
C10_OnlyValidatedHosts ==
    /\ \A k \in DOMAIN jsonlLog :
          "sapl_base" \in DOMAIN jsonlLog[k]
              => jsonlLog[k].sapl_base \in InputBases
    /\ sent \subseteq {b.origin : b \in InputBases}

\* the base of the host of task i
TaskBase(i) == base_from_sapl_url(conf.input[tasks[i].line].sapl_url)

\* base + "/materia/" + id + "/acompanhar-materia/"
PublicLink(base, id) ==
    [origin |-> base.origin,
     path |-> base.path \o <<"materia">> \o <<id>> \o <<"acompanhar-materia">>,
     page |-> 0]

\* the row's public link is the link of its own base and bill id; a row of
\* the utils engine carries neither, its base is the task's and its id
\* one of the ids the host serves
LinkOk(i, row) ==
    IF "materia_id" \in DOMAIN row
    THEN /\ row.materia_id # None
         /\ row.link_publico = PublicLink(row.sapl_base, row.materia_id.v)
    ELSE \E k \in DOMAIN IdStr :
            row.link_publico = PublicLink(TaskBase(i), IdStr[k])

(* C11: every record the engine emits, the rows it yields and the records  *)
(* of the log alike, has the public link base + "/materia/" + materia_id   *)
(* + "/acompanhar-materia/" of its own host base and bill id.              *)
C11_PublicLink ==
    /\ \A i \in DOMAIN tasks :
          \A k \in DOMAIN tasks[i].out : LinkOk(i, tasks[i].out[k])
    /\ \A k \in DOMAIN jsonlLog :
          \E i \in DOMAIN tasks : LinkOk(i, jsonlLog[k])

(* C13: Scenario C: a host none of whose candidate endpoints answered has  *)
(* ended without error, has yielded no record, and has been sent nothing   *)
(* but the endpoint probes.                                                *)
C13_ScenarioC ==
    \A i \in DOMAIN tasks :
        tasks[i].epnone
            => /\ tasks[i].pc = "done"
               /\ ~tasks[i].yielded /\ tasks[i].out = <<>>
               /\ tasks[i].reqs = {"endpoint"}

\* a host without endpoint has ended while the task of another host has
\* yielded records
C13_Witness ==
    /\ Len(tasks) = 2
    /\ tasks[1].epnone
    /\ tasks[2].yielded
    /\ run = "closed"

\* the line is a host record: a JSON object
WellFormed(line) == line.kind = "host"

(* C15: a malformed line of the input (no JSON, or JSON that is no object) *)
(* is skipped alone: it gets no task and raises no error, and every other  *)
(* line gets its task; the run is never aborted unless the task of a       *)
(* well-formed line raised.                                                *)
C15_MalformedSkipped ==
    run \in {"gather", "closed", "aborted"} =>
        /\ \A i \in DOMAIN tasks : WellFormed(conf.input[tasks[i].line])
        /\ \A l \in DOMAIN conf.input :
              WellFormed(conf.input[l])
                  => \E i \in DOMAIN tasks : tasks[i].line = l
        /\ run = "aborted"
              => \E i \in DOMAIN tasks :
                    /\ tasks[i].pc = "raised"
                    /\ WellFormed(conf.input[tasks[i].line])

(* C16: when the input file does not exist the run ends with the error     *)
(* before any work: no output file created or truncated, no HTTP client    *)
(* opened, no task, no request sent.                                       *)
C16_MissingInput ==
    ~conf.exists /\ run # "idle"
        => /\ run = "missing"
           /\ opened = {}
           /\ tasks = <<>>
           /\ sent = {}

(* C17: after an interrupt no request of the run has been aborted: every   *)
(* task that was cancelled had no request in flight.                       *)
C17_InterruptDrains ==
    run = "interrupted" => \A i \in DOMAIN tasks : ~tasks[i].cut

\* the keys of the row collect_pls_for_base builds (scraper.py lines
\* 273-288), and of the row of utils/scraper.py (lines 328-336)
BaseFields ==
    {"sapl_base", "sapl_url", "municipio", "uf", "tipo_id", "tipo_label",
     "materia_id", "numero", "ano", "ementa", "data_apresentacao",
     "em_tramitacao", "situacao", "link_publico"}
UtilsFields ==
    {"municipio", "uf", "ibge_id", "ementa", "data_apresentacao",
     "link_publico"}

\* the enrichment of the row is built: the sub-resource is in the row
\* with the date and the status extracted from it
EnrichmentBuilt(row) ==
    /\ "ultima_tramitacao" \in DOMAIN row
    /\ LET f == extract_tramitacao_fields(row.ultima_tramitacao)
       IN /\ f[1] # "" => Get(row, "ultima_tramitacao_data", None) = JStr(f[1])
          /\ f[2] # "" => Get(row, "ultima_tramitacao_status", None) = JStr(f[2])

\* every field of the row is built
Complete(row) ==
    IF conf.impl = "utils" THEN UtilsFields \subseteq DOMAIN row
    ELSE /\ BaseFields \subseteq DOMAIN row
         /\ (conf.tram /\ row.materia_id # None) => EnrichmentBuilt(row)

C20_RecordFields ==
    \A k \in DOMAIN jsonlLog :
        /\ BaseFields \subseteq DOMAIN jsonlLog[k]
        /\ DOMAIN jsonlLog[k] \subseteq
              BaseFields \cup (IF conf.tram
                               THEN {"ultima_tramitacao_data",
                                     "ultima_tramitacao_status"}
                               ELSE {})

\* the kept types of the sequence that have an id
WithId(kept) == SelectSeq(kept, LAMBDA k : ~Falsy(k.id))

\* the causes for which pager gives up a type
GivesUp == {"fail", "non200", "unparseable", "loop"}

(* C31: a run of pager that stops on a failed request, a status other     *)
(* than 200, a body that is no JSON or a detected loop ends the type only: *)
(* the task does not raise on such a response, after k runs of pager have  *)
(* ended it is paging the next kept type or, when there is none left, has  *)
(* ended normally, and no step takes a record from the log.                *)
C31_StopEndsType ==
    [][/\ \A i \in DOMAIN tasks' :
             LET t == tasks'[i]
             IN /\ t.pc = "raised" => t.lastp \in {"", "badresults", "badpag"}
                /\ t.pc \in {"page", "tram"}
                      => /\ ~Falsy(Head(t.kept).id)
                         /\ Len(t.stops) + Len(WithId(t.kept)) = t.nkept
                /\ t.pc = "done" /\ t.stops # <<>>
                      => Len(t.stops) = t.nkept
       /\ Len(jsonlLog') >= Len(jsonlLog)
       /\ SubSeq(jsonlLog', 1, Len(jsonlLog)) = jsonlLog]_vars

\* the first type was given up on a loop after its records were written,
\* the second type was given up on a failed request, and the task ended
C31_Witness ==
    \E i \in DOMAIN tasks :
        /\ tasks[i].pc = "done"
        /\ tasks[i].stops = <<"loop", "fail">>
        /\ jsonlLog # <<>>

(* C32: the candidate endpoints are probed in their order, each once; the  *)
(* endpoint selected is the one probed last, so that no candidate is       *)
(* probed after the selection; and no candidate that answered 200 with a   *)
(* body that parses as JSON, whatever the body, was passed over.           *)
C32_FirstJsonEndpoint ==
    \A i \in DOMAIN tasks :
        LET t == tasks[i]
        IN /\ t.pc = "endpoint" => t.epn = t.ep
           /\ t.epn <= Len(EndpointPaths)
           /\ t.endpoint # NoUrl => t.endpoint = EndpointUrl(t.base, t.epn)
           /\ t.epnone => t.epn = Len(EndpointPaths)
           /\ ~t.epskip

(* pager in the place of list_tipos_pl: entered with the URL and the       *)
(* parameters of the type listing, it has sent the request that            *)
(* list_tipos_pl has in flight (its last_sig is the signature of that      *)
(* request, unless it is the first).                                       *)
AsPager(t) ==
    [t EXCEPT !.pc = "page", !.endpoint = TiposUrl(t.base),
              !.kept = <<[id |-> JInt("1"), rotulo |-> JStr("PL")]>>,
              !.last_sig = IF t.tipos = <<>> THEN <<>>
                           ELSE <<t.page_url, t.page_params>>]

\* list_tipos_pl and pager go on alike after the response
SameStep(impl, input, t, resp) ==
    LET a == OnTipos(impl, t, resp)
        p == OnPage(impl, FALSE, input, AsPager(t), resp)
    IN /\ (a.pc = "tipos") = (p.pc = "page")
       /\ (a.pc = "raised") = (p.pc = "raised")
       /\ a.pc = "tipos" /\ p.pc = "page"
             => /\ a.page_url.origin = p.page_url.origin
                /\ PageOf(a.page_url, a.page_params)
                      = PageOf(p.page_url, p.page_params)

(* C33: whatever the response to a request of the type listing,            *)
(* list_tipos_pl stops, raises or goes on exactly when pager would, and    *)
(* when both go on they ask the same host for the same page.               *)
C33_TiposAsPager ==
    \A i \in DOMAIN tasks :
        tasks[i].pc = "tipos"
            => \A resp \in Responses(conf.rich, "tipos") :
                  SameStep(conf.impl, conf.input, tasks[i], resp)

\* the row shows the one status-transition request made for it: it carries
\* the sub-resource received ({} when the request failed) and the optional
\* fields exactly when the sub-resource has them
EnrichedOnce(row) ==
    /\ "ultima_tramitacao" \in DOMAIN row
    /\ LET f == extract_tramitacao_fields(row.ultima_tramitacao)
       IN /\ IF f[1] # ""
             THEN Get(row, "ultima_tramitacao_data", None) = JStr(f[1])
             ELSE "ultima_tramitacao_data" \notin DOMAIN row
          /\ IF f[2] # ""
             THEN Get(row, "ultima_tramitacao_status", None) = JStr(f[2])
             ELSE "ultima_tramitacao_status" \notin DOMAIN row

\* no status-transition request was made for the row
NotEnriched(row) ==
    DOMAIN row \cap {"ultima_tramitacao", "ultima_tramitacao_data",
                     "ultima_tramitacao_status"} = {}

(* C34: with enrichment every record handed to the Writer, written or      *)
(* about to be handed over, has had its status-transition request, whose   *)
(* response, good or not, is in the record; without enrichment no such     *)
(* request is sent and no record has an enrichment field.                  *)
C34_OneEnrichment ==
    conf.spec = "extract" =>
        /\ \A i \in DOMAIN tasks :
              /\ \A k \in DOMAIN tasks[i].out :
                    IF conf.tram THEN EnrichedOnce(tasks[i].out[k])
                    ELSE NotEnriched(tasks[i].out[k])
              /\ ~conf.tram => "tram" \notin tasks[i].reqs
        /\ \A k \in DOMAIN jsonlLog :
              IF conf.tram THEN EnrichedOnce(jsonlLog[k])
              ELSE NotEnriched(jsonlLog[k])

----------------------------------------------------------------------------
\* two lines of the input resolve to one host base
SharedBase ==
    \E i, j \in DOMAIN conf.input :
        /\ i < j
        /\ WellFormed(conf.input[i]) /\ WellFormed(conf.input[j])
        /\ conf.input[i].sapl_url # NoUrl
        /\ base_from_sapl_url(conf.input[i].sapl_url)
              = base_from_sapl_url(conf.input[j].sapl_url)

\* the lines of the log that have the row's (host base, bill id)
LinesOf(row) == {k \in DOMAIN jsonlLog : PairOf(jsonlLog[k]) = PairOf(row)}

(* C37: when two lines of the input resolve to one host base, under every  *)
(* interleaving of their tasks each (host base, bill id) a task has        *)
(* yielded is in the log exactly once.                                     *)
C37_SharedBaseOnce ==
    (conf.spec = "extract" /\ SharedBase) =>
        /\ \A i \in DOMAIN tasks : \A k \in DOMAIN tasks[i].out :
              KeyBaseMid(tasks[i].out[k]) # <<>>
                  => Cardinality(LinesOf(tasks[i].out[k])) = 1
        /\ \A k \in DOMAIN jsonlLog : LinesOf(jsonlLog[k]) = {k}

\* the two tasks of one host base run at the same time, each with a
\* request in flight, and both have yielded the same (host base, bill id)
C37_Witness ==
    /\ conf.spec = "extract"
    /\ SharedBase
    /\ \E i, j \in DOMAIN tasks :
          /\ i < j
          /\ InFlight(tasks[i]) /\ InFlight(tasks[j])
          /\ tasks[i].base = tasks[j].base
          /\ \E a \in DOMAIN tasks[i].out, b \in DOMAIN tasks[j].out :
                /\ KeyBaseMid(tasks[i].out[a]) # <<>>
                /\ PairOf(tasks[i].out[a]) = PairOf(tasks[j].out[b])
                /\ Cardinality(LinesOf(tasks[i].out[a])) = 1

\* the URLs build_candidates gives for the hosts derived from the
\* municipalities of the run
CandidateUrls ==
    UNION {{build_candidates(h)[p] : p \in DOMAIN CHECK_PATHS} :
              h \in {conf.items[i].sapl_host : i \in DOMAIN conf.items}
                    \cup {conf.items[i].base_host : i \in DOMAIN conf.items}}

(* C38: every host the discovery records has the URL of a candidate: the   *)
(* "https://" origin of a host derived by the strategy followed by one of  *)
(* the fixed probe paths; no URL comes from anywhere else.                 *)
C38_UrlFromCandidates ==
    conf.spec = "discover" =>
        \A k \in DOMAIN jsonlLog : jsonlLog[k].sapl_url \in CandidateUrls

\* the continuations an envelope carries
Continuations(b) ==
    (IF b.pag = "obj" /\ b.next_page > 0 THEN {"next_page"} ELSE {})
    \cup (IF b.pag = "obj" /\ b.links_next.k # "none" THEN {"links"} ELSE {})
    \cup (IF b.next.k # "none" THEN {"next"} ELSE {})

\* the request in flight is the one the link names: its page, the origin of
\* an absolute link, no parameters besides
RequestOfLink(t, l) ==
    /\ t.page_params = EmptyDict
    /\ t.page_url.page = l.page
    /\ t.page_url.path = t.endpoint.path
    /\ l.k = "abs" => t.page_url.origin = l.origin

(* C39: pager goes on after a response only when the response is an        *)
(* envelope with a continuation, and the request it then sends is the one  *)
(* of the numeric next_page when there is one, else of pagination.links    *)
(* .next when there is one, else of the top-level next; after a bare array *)
(* or an envelope without continuation no page request follows.            *)
C39_OneContinuation ==
    conf.spec = "extract" =>
        \A i \in DOMAIN tasks :
            LET t == tasks[i]
                b == t.lastc
            IN (t.pc = "page" /\ b # NoBody) =>
                  /\ b.kind = "env"
                  /\ Continuations(b) # {}
                  /\ IF "next_page" \in Continuations(b)
                     THEN /\ t.page_url = t.endpoint
                          /\ t.page_params
                               = BaseParams(t) @@ ("page" :> b.next_page)
                     ELSE IF "links" \in Continuations(b)
                     THEN RequestOfLink(t, b.links_next)
                     ELSE RequestOfLink(t, b.next)

\* pager has gone on after a response that has the three continuations,
\* each naming another page than the numeric one
C39_Witness ==
    /\ conf.spec = "extract"
    /\ \E i \in DOMAIN tasks :
          /\ tasks[i].pc = "page"
          /\ Continuations(tasks[i].lastc) = {"next_page", "links", "next"}
          /\ tasks[i].lastc.links_next.page # tasks[i].lastc.next_page
          /\ tasks[i].page_params["page"] = tasks[i].lastc.next_page

(* C40: no record of an item without id is persisted: every line of the   *)
(* log has a public link, and its host base and its bill id, when the      *)
(* record has these fields, are not empty.                                 *)
C40_NoIdNotPersisted ==
    conf.spec = "extract" =>
        \A k \in DOMAIN jsonlLog :
            /\ Get(jsonlLog[k], "link_publico", NoUrl) # NoUrl
            /\ "sapl_base" \in DOMAIN jsonlLog[k]
                  => jsonlLog[k].sapl_base # NoUrl
            /\ "materia_id" \in DOMAIN jsonlLog[k]
                  => jsonlLog[k].materia_id # None

(* Properties of the certificate search *)

\* 1.5, 3, 6, 12, 20, 20, ... in tenths of a second
Schedule(k) == IF k >= 5 THEN 200 ELSE 15 * 2 ^ (k - 1)

\* the delays follow the schedule
OnSchedule(ds) == \A k \in DOMAIN ds : ds[k] = Schedule(k)

(* C12: the delays slept in a query are 1.5, 3, 6, 12, 20, 20, ... s in    *)
(* this order, none above 20 s, and a query returns an empty result only   *)
(* after exactly 5 failed attempts.                                        *)
C12_Backoff ==
    query.pc # "none"
        => /\ OnSchedule(query.delays) /\ OnSchedule(query.ldelays)
           /\ \A k \in DOMAIN query.delays : query.delays[k] <= 200
           /\ query.lret = "empty" => query.lfailed = 5

\* a query has given up after its fifth attempt was answered by a
\* rate-limit status: five delays slept, the last one at the cap
C12_Witness ==
    /\ query.pc # "none"
    /\ query.lret = "empty"
    /\ Len(query.ldelays) = 5
    /\ query.ldelays[5] = 200

\* no two records of the sequence have the same sapl_url
UniqueByUrl(recs) ==
    \A j, k \in DOMAIN recs : recs[j].sapl_url = recs[k].sapl_url => j = k

(* C19: whatever the interleaving of the validations of the two            *)
(* strategies, no two records of the validated-host stream (the log, the   *)
(* CSV's rows kept for the aggregate) have the same sapl_url, and the      *)
(* found count is the number of records written.                           *)
C19_UniqueHosts ==
    /\ UniqueByUrl(jsonlLog)
    /\ UniqueByUrl(rows)
    /\ count = Len(jsonlLog)
    /\ count = Len(csvLog)

\* a worker of the certificate search has confirmed the URL that the
\* heuristic strategy had already written, and has handed its row over
C19_Witness ==
    \E i \in DOMAIN tasks, k \in DOMAIN jsonlLog :
        /\ tasks[i].pc = "done"
        /\ tasks[i].v # NoV
        /\ tasks[i].out = <<>>
        /\ jsonlLog[k].sapl_url = tasks[i].v.url
        /\ jsonlLog[k].source = JStr("ibge-heuristic")

----------------------------------------------------------------------------
\* the partition queries have all ended, each with no rows
AllEmpty(h) ==
    /\ Len(h) >= NParts
    /\ \A k \in 1..NParts : h[k] = "empty"

(* C25: the unpartitioned query is sent exactly when every partition query *)
(* has ended with no rows, and after all of them; when it yields nothing   *)
(* too, the strategy returns without a host, without a worker and without  *)
(* raising.                                                                *)
C25_BroadFallback ==
    conf.spec = "crtsh" /\ query.pc # "none"
        => /\ (query.part = NParts + 1) <=> AllEmpty(query.hist)
           /\ (Len(query.hist) = NParts + 1
                  /\ query.hist[NParts + 1] = "empty")
                 => /\ query.pc = "end"
                    /\ run = "closed"
                    /\ tasks = <<>>
                    /\ \A k \in DOMAIN jsonlLog :
                          jsonlLog[k].source # JStr("crtsh")

C25_Witness ==
    /\ conf.spec = "crtsh"
    /\ conf.names # {}
    /\ query.pc = "end"
    /\ Len(query.hist) = NParts + 1
    /\ query.hist[NParts + 1] = "empty"
    /\ run = "closed"

(* C26: a partition whose retries are exhausted counts as empty and no     *)
(* more: when the queries are over every partition has been queried, and   *)
(* unless a row was malformed the run goes on, with one worker for every   *)
(* host of the partitions that succeeded, each of which validates its      *)
(* host before the run closes.                                             *)
C26_PartitionIsolated ==
    (/\ conf.spec = "crtsh"
     /\ query.pc = "end"
     /\ \E k \in DOMAIN query.hist : k <= NParts /\ query.hist[k] = "empty"
     /\ \A k \in DOMAIN query.hist : query.hist[k] # "bad")
        => /\ Len(query.hist) >= NParts
           /\ run \in {"gather", "closed"}
           /\ (\E k \in DOMAIN query.hist : query.hist[k] = "rows")
                 => /\ DOMAIN tasks = DOMAIN HostItems(conf.names)
                    /\ run = "closed"
                          => \A i \in DOMAIN tasks : tasks[i].vdone

C26_Witness ==
    /\ conf.spec = "crtsh"
    /\ query.pc = "end"
    /\ query.hist[1] = "empty"
    /\ query.hist[Len(query.hist)] = "rows"
    /\ query.lfailed = 0
    /\ run = "closed"
    /\ \E i \in DOMAIN tasks : tasks[i].vdone /\ tasks[i].v # NoV

\* the name follows the convention sapl.<...>.leg.br
Conventional(n) == StartsSapl(n) /\ EndsLegBr(n)

(* C27: every hostname the certificate search passes on, to the candidate  *)
(* callback or to a worker that validates it, starts with "sapl." and      *)
(* ends with ".leg.br".                                                    *)
C27_HostFilter ==
    conf.spec = "crtsh" /\ query.pc # "none"
        => /\ \A k \in DOMAIN query.passed : Conventional(query.passed[k])
           /\ \A i \in DOMAIN tasks :
                 \E n \in conf.names :
                    /\ Conventional(n)
                    /\ OriginOfName(n) = conf.items[tasks[i].item].sapl_host

(* C28: a candidate host is written to no durable output before it is     *)
(* validated: every host of a line of the candidates file is the host of   *)
(* a record of the validated-host log.                                     *)
C28_CandidatesEphemeral ==
    conf.spec = "crtsh"
        => \A k \in DOMAIN candLog :
              \E j \in DOMAIN jsonlLog :
                 jsonlLog[j].sapl_url.origin = OriginOfName(candLog[k])

(* Properties of slugify *)

\* what a character of a name leaves in the slug: its base letter in
\* lowercase, the digit, or nothing
Bare(c) ==
    CASE c \in {"E_acute", "e_acute"} -> <<"e">>
      [] c \in {"A_acute", "a_acute"} -> <<"a">>
      [] LowerChar(c) \in AsciiLower \cup Digits -> <<LowerChar(c)>>
      [] OTHER -> <<>>

RECURSIVE BareAll(_)
BareAll(s) == IF s = <<>> THEN <<>> ELSE Bare(Head(s)) \o BareAll(Tail(s))

----------------------------------------------------------------------------
(* Properties of the discovery run *)

\* lowercase, decomposed, combining marks dropped
Folded(s) == StripCombining(Nfkd(Lower(s)))

\* the body contains a marker of the fixed set, letter case and diacritics
\* apart, or its title contains the platform's name
BodyMatches(body) ==
    \/ \E m \in {M_Interlegis, M_PesquisarAcc, M_MateriasAcc, M_Sapl} :
          \E k \in DOMAIN Texts(body) :
              Contains(Folded(Texts(body)[k].s), Folded(m))
    \/ Contains(Lower(TitleGroup(body)), R_Sapl)

(* C2: validate_host returns a ValidatedHost if and only if one of the     *)
(* paths it probed answered 200 with a body that matches a marker or       *)
(* whose title contains the platform's name.                               *)
C2_ValidateIff ==
    \A i \in DOMAIN tasks :
        tasks[i].vdone
            => ((tasks[i].v # NoV)
                  <=> \E k \in DOMAIN tasks[i].probed :
                         /\ tasks[i].probed[k].st = 200
                         /\ BodyMatches(tasks[i].probed[k].body))

\* the response answers 200 with a body that matches
Accepts(resp) == resp.st = 200 /\ BodyMatches(resp.body)

\* the records of the host that validate_host produced, handed over or
\* still to be handed over to the writer
RecordsOf(host, t) ==
    SelectSeq(jsonlLog \o t.out,
              LAMBDA r : /\ r.sapl_url.origin = host
                         /\ r.source # JStr("portal-link-scan"))

(* C14: once validate_host has returned for a host (and before the next   *)
(* call has sent its first probe), the output holds                        *)
(* exactly one record of the host when one of the probed paths accepted    *)
(* and none otherwise; the record carries the URL of the first accepting   *)
(* path in the order of CHECK_PATHS, status 200 and the marker that        *)
(* matched, "SAPL - Interlegis" when the accepting body contains it.       *)
C14_ScenarioA ==
    \A i \in DOMAIN tasks :
        tasks[i].vdone /\ tasks[i].pc # "probe" =>
            LET t == tasks[i]
                host == HostOf(conf.items, t)
                acc == {k \in DOMAIN t.probed : Accepts(t.probed[k])}
                first == CHOOSE k \in acc : \A j \in acc : k <= j
                recs == RecordsOf(host, t)
            IN IF acc = {}
               THEN t.v = NoV /\ recs = <<>>
               ELSE /\ t.v.url = build_candidates(host)[first]
                    /\ t.v.status = 200
                    /\ (\E k \in DOMAIN Texts(t.probed[first].body) :
                           Contains(Texts(t.probed[first].body)[k].s,
                                    M_Interlegis))
                          => t.v.marker = M_Interlegis
                    /\ Len(recs) = 1
                    /\ recs[1].sapl_url = t.v.url
                    /\ recs[1].http_status = JInt("200")
                    /\ recs[1].marker = JStr(t.v.marker)

\* validate_host takes the response for a confirmation
Confirms(resp) ==
    /\ try_get(resp).st = 200
    /\ looks_like_sapl(conf.impl, try_get(resp).html).ok

(* C30: in one call of validate_host the paths are requested in the order  *)
(* of CHECK_PATHS, each at most once; a further path is requested only     *)
(* after a response that was not taken for a confirmation; the call        *)
(* returns the URL of the path requested last when that one confirmed, and *)
(* nothing only after every path was requested.                            *)
C30_PathOrder ==
    \A i \in DOMAIN tasks :
        LET t == tasks[i]
        IN /\ Len(t.asked) <= Len(CHECK_PATHS)
           /\ \A k \in DOMAIN t.asked : t.asked[k] = k
           /\ t.pc = "probe" /\ ~t.vdone
                 => /\ Len(t.asked) = Len(t.probed) + 1
                    /\ \A k \in DOMAIN t.probed : ~Confirms(t.probed[k])
           /\ t.vdone /\ t.pc # "probe"
                 => /\ Len(t.asked) = Len(t.probed)
                    /\ \A k \in DOMAIN t.probed :
                          k < Len(t.probed) => ~Confirms(t.probed[k])
                    /\ IF Confirms(t.probed[Len(t.probed)])
                       THEN t.v.url = build_candidates(HostOf(conf.items, t))
                                          [Len(t.asked)]
                       ELSE t.v = NoV /\ Len(t.asked) = Len(CHECK_PATHS)

\* the first path raised, the second was requested and confirmed the host
C30_Witness ==
    \E i \in DOMAIN tasks :
        /\ tasks[i].vdone /\ tasks[i].pc # "probe"
        /\ tasks[i].asked = <<1, 2>>
        /\ tasks[i].probed[1] = Down
        /\ tasks[i].v # NoV

\* the text that validation inspects holds a marker of the fixed set,
\* letter case and diacritics apart
MarkerUpToFold(html) ==
    \E m \in {M_Interlegis, M_PesquisarAcc, M_MateriasAcc, M_Sapl} :
        \E k \in DOMAIN Texts(html) :
            Contains(Folded(Texts(html)[k].s), Folded(m))

(* C23: marker matching is insensitive to letter case and diacritics: a    *)
(* 200 response whose inspected text holds a marker, written with or       *)
(* without its accents and in any case, is accepted by looks_like_sapl,    *)
(* and the two implementations of looks_like_sapl accept the same texts.   *)
C23_MarkerFolding ==
    \A i \in DOMAIN tasks :
        \A k \in DOMAIN tasks[i].probed :
            LET g == try_get(tasks[i].probed[k])
            IN g.st = 200
                 => /\ MarkerUpToFold(g.html)
                        => looks_like_sapl(conf.impl, g.html).ok
                    /\ looks_like_sapl("tools", g.html).ok
                          = looks_like_sapl("exp", g.html).ok

(* C6: the requests in flight are never more than the concurrency bound,   *)
(* and each of them was sent by a worker that holds a permit.              *)
C6_InFlightBound ==
    run = "gather"
        => /\ Cardinality({i \in DOMAIN tasks : DInFlight(tasks[i])})
                <= conf.concurrency
           /\ \A i \in DOMAIN tasks : DInFlight(tasks[i]) => tasks[i].holds

====
